---------------------------- MODULE Spec2Model ----------------------------
(***************************************************************************)
(* Model of the ranking run (scripts/compute_rankings.py) and of the       *)
(* company recommendation runs (scripts/enhanced_company_recommendations.py*)
(* and scripts/build_demand_company.py) of the Certify data pipeline.      *)
(*                                                                         *)
(* Numbers.  Raw signals (postings, salary, fee, hours) are integers.      *)
(* Python floats that carry scores are modelled in fixed point: a score s  *)
(* is the integer s * Scale, every float operation rounds its exact result *)
(* to the nearest unit (RoundDiv), as an IEEE operation rounds to the      *)
(* nearest representable value.                                            *)
(***************************************************************************)
EXTENDS Integers, Sequences, FiniteSets, TLC

(***************************************************************************)
(* Bounds of the model.                                                    *)
(***************************************************************************)
MaxCerts == 3
MaxRuns == 2
MaxIndex == 4
MaxValues == 4

\* one fixed-point unit is 1/Scale
Scale == 10 * 10000

\* absent optional field of a JSON record (key missing)
NoVal == 0 - 1

\* optional field of a JSON record that holds null (None after json.load)
Null == 0 - 2

(***************************************************************************)
(* State.                                                                  *)
(***************************************************************************)
VARIABLES
    certFiles,        \* data/certifications/*.json
    demandFile,       \* data/demand/metrics.json
    salaryFile,       \* data/salaries/role_salaries.json
    trendsFile,       \* data/rankings/trends.json
    todayFile,        \* data/rankings/today.json
    pc,               \* position of the running main(), "idle" between runs
    runs,             \* number of runs started
    loaded,           \* certifications and domains (lines 146-147)
    demand_data,      \* line 168
    salary_data,      \* line 173
    previous_scores,  \* line 178
    all_rankings,     \* line 181
    new_scores,       \* line 182
    trendsAtStart,    \* trends.json as it was when the run started
    todayAtStart,     \* today.json as it was when the run started
    history,          \* per run: its inputs, its starting trend store, its entries
    indexFile,        \* data/certifications/index.json, or the shards of index.map.json
    companiesFile,    \* data/companies/by_domain.json
    affinityFile,     \* scripts/data/issuer_company_affinity.csv
    recFile,          \* data/companies/recommendations.json
    recStatus,        \* how the last recommendation run ended, "idle" before the first
    fnIn,             \* arguments of a function called on its own
    fnOut             \* what that call returned, or that it raised

vars == <<certFiles, demandFile, salaryFile, trendsFile, todayFile, pc, runs, loaded,
          demand_data, salary_data, previous_scores, all_rankings, new_scores,
          trendsAtStart, todayAtStart, history,
          indexFile, companiesFile, affinityFile, recFile, recStatus, fnIn, fnOut>>

disk == <<certFiles, demandFile, salaryFile, trendsFile, todayFile>>
inputs == <<certFiles, demandFile, salaryFile>>
locals == <<loaded, demand_data, salary_data, previous_scores, all_rankings, new_scores>>
recvars == <<indexFile, companiesFile, affinityFile, recFile, recStatus>>
fnvars == <<fnIn, fnOut>>

(***************************************************************************)
(* Arithmetic helpers.                                                     *)
(***************************************************************************)
Max(a, b) == IF a >= b THEN a ELSE b
Min(a, b) == IF a <= b THEN a ELSE b
Abs(a) == IF a >= 0 THEN a ELSE 0 - a

\* a / b rounded to the nearest integer (b > 0), the rounding of a float result
RoundDiv(a, b) == (2 * a + b) \div (2 * b)

RECURSIVE SqrtIter(_, _)
SqrtIter(x, r) ==
    LET r2 == (r + x \div r) \div 2
    IN IF r2 >= r THEN r ELSE SqrtIter(x, r2)

\* floor of the square root (math.sqrt inside statistics.stdev)
ISqrt(x) == IF x <= 0 THEN 0 ELSE SqrtIter(x, x)

RECURSIVE SeqSum(_)
SeqSum(s) == IF s = <<>> THEN 0 ELSE Head(s) + SeqSum(Tail(s))

RECURSIVE SeqMin(_)
SeqMin(s) == IF Len(s) = 1 THEN s[1] ELSE Min(s[1], SeqMin(Tail(s)))

RECURSIVE SeqMax(_)
SeqMax(s) == IF Len(s) = 1 THEN s[1] ELSE Max(s[1], SeqMax(Tail(s)))

RECURSIVE SelectPos(_)
\* [v for v in values if v > 0], order kept
SelectPos(s) ==
    IF s = <<>> THEN <<>>
    ELSE IF Head(s) > 0 THEN <<Head(s)>> \o SelectPos(Tail(s))
         ELSE SelectPos(Tail(s))

Range(s) == {s[i] : i \in 1..Len(s)}

(***************************************************************************)
(* Configuration (compute_rankings.py lines 17-35).  Weights in percent,   *)
(* difficulty weights in fixed point, ALPHA in tenths.                     *)
(***************************************************************************)
WEIGHTS == [demand |-> 45, salary |-> 25, fee |-> 15, hours |-> 10, freshness |-> 5]

DIFFICULTY_WEIGHTS ==
    [foundational |-> 5000, associate |-> 10000, professional |-> 15000,
     expert |-> 20000, specialty |-> 15000]

ALPHA == 5

(***************************************************************************)
(* Normalizers.                                                            *)
(***************************************************************************)
\* sum of squared deviations, times n^2: sum (n*x - S)^2
RECURSIVE SqDev(_, _, _)
SqDev(s, n, total) ==
    IF s = <<>> THEN 0
    ELSE (n * Head(s) - total) * (n * Head(s) - total) + SqDev(Tail(s), n, total)

\* statistics.stdev(values) * n * 100, n = len(values) >= 2
StdevN100(values) ==
    LET n == Len(values)
    IN ISqrt((SqDev(values, n, SeqSum(values)) * 10000) \div (n - 1))

\* values = [v for v in values if v is not None and not math.isnan(v)]
\* (lines 55 and 73); a None of the list is held as Null
IsSample(v) == v # Null
Samples(values) == SelectSeq(values, IsSample)

\* mutant of zscore: the sample threshold is 2 instead of 3
zscore_TwoSamples(values, value) ==
    IF Len(values) < 2 \/ Len(Samples(values)) < 2 THEN 0
    ELSE LET n == Len(Samples(values))
             sd == StdevN100(Samples(values))
         IN IF sd < 1 THEN 0
            ELSE RoundDiv((n * value - SeqSum(Samples(values))) * 1000000, sd)
                   * (Scale \div 10000)

\* zscore(values, value).  stdev < 1e-6 is StdevN100 < 1 at this resolution.
zscore(values, value) ==
    IF Len(values) < 3 \/ Len(Samples(values)) < 3 THEN 0
    ELSE LET n == Len(Samples(values))
             sd == StdevN100(Samples(values))
         IN IF sd < 1 THEN 0
            ELSE RoundDiv((n * value - SeqSum(Samples(values))) * 1000000, sd)
                   * (Scale \div 10000)

\* mutant of minmax_normalize: a cohort without range counts as the minimum
minmax_normalize_ZeroOnConstant(values, value) ==
    IF Len(values) < 2 \/ Len(Samples(values)) < 2 THEN 0
    ELSE LET min_val == SeqMin(Samples(values))
             max_val == SeqMax(Samples(values))
         IN IF max_val - min_val < 1 THEN 0
            ELSE RoundDiv((value - min_val) * Scale, max_val - min_val)

\* minmax_normalize(values, value)
minmax_normalize(values, value) ==
    IF Len(values) < 2 \/ Len(Samples(values)) < 2 THEN 0
    ELSE LET min_val == SeqMin(Samples(values))
             max_val == SeqMax(Samples(values))
         IN IF max_val - min_val < 1 THEN Scale \div 2
            ELSE RoundDiv((value - min_val) * Scale, max_val - min_val)


(***************************************************************************)
(* Sorting helpers (sorted(), statistics.median).                          *)
(***************************************************************************)
RECURSIVE InsertInt(_, _)
InsertInt(s, x) ==
    IF s = <<>> THEN <<x>>
    ELSE IF x < Head(s) THEN <<x>> \o s
         ELSE <<Head(s)>> \o InsertInt(Tail(s), x)

RECURSIVE SortInts(_)
SortInts(s) == IF s = <<>> THEN <<>> ELSE InsertInt(SortInts(Tail(s)), Head(s))

\* statistics.median(data), twice: the middle value, or the sum of the two
\* middle values of an even-sized list
Median2(s) ==
    LET t == SortInts(s)
        n == Len(t)
    IN IF n % 2 = 1 THEN 2 * t[(n + 1) \div 2] ELSE t[n \div 2] + t[n \div 2 + 1]

(***************************************************************************)
(* Signal extractors.  A certification record holds NoVal in an optional   *)
(* field whose key is missing.  duration is [kind, n]:                     *)
(*   "absent"     no duration key (default '0 hours')                      *)
(*   "hours", "weeks", "days"   "<n> hours", "<n> weeks", "<n> days"       *)
(*   "malformed"  names a unit but float() of the rest raises              *)
(*   "nounit"     a string naming none of hour, week, day                  *)
(*   "null"       the key holds null                                       *)
(* A level is a lower-cased string, "" when the key is missing and         *)
(* NullLevel when it holds null.                                           *)
(***************************************************************************)
\* float(None) raises TypeError in get_demand_signal (lines 89-90): a null
\* job_postings_30d in the row of the slug, or a null job_postings in a record
\* whose slug the table lacks
get_demand_signal_raises(cert, demand_tbl) ==
    IF cert.slug \in DOMAIN demand_tbl THEN demand_tbl[cert.slug] = Null
    ELSE cert.job_postings = Null

\* get_demand_signal: demand_tbl maps a slug to its job_postings_30d
\* (NoVal when that key is missing in the table row)
get_demand_signal(cert, demand_tbl) ==
    IF cert.slug \in DOMAIN demand_tbl
    THEN (IF demand_tbl[cert.slug] = NoVal THEN 0 ELSE demand_tbl[cert.slug])
    ELSE (IF cert.job_postings = NoVal THEN 0 ELSE cert.job_postings)

\* [median_usd of each role whose median_usd is truthy]
RECURSIVE TruthyMedians(_)
TruthyMedians(roles) ==
    IF roles = <<>> THEN <<>>
    ELSE IF Head(roles) # NoVal /\ Head(roles) # 0
         THEN <<Head(roles)>> \o TruthyMedians(Tail(roles))
         ELSE TruthyMedians(Tail(roles))

\* get_salary_signal: salary_tbl maps a domain to the median_usd values of
\* its roles.  The median of an even number of roles may end in .5; the pools
\* of the model hold medians whose sum is even.
get_salary_signal(cert, salary_tbl) ==
    IF cert.salary # NoVal /\ cert.salary # Null THEN cert.salary
    ELSE IF cert.domain \in DOMAIN salary_tbl
              /\ TruthyMedians(salary_tbl[cert.domain]) # <<>>
         THEN Median2(TruthyMedians(salary_tbl[cert.domain])) \div 2
         ELSE 0

\* float(None) raises TypeError at line 113, outside the try of line 118
FrictionFeeRaises(cert) ==
    \/ cert.cost = Null
    \/ cert.cost = NoVal /\ cert.exam_fee_usd = Null

\* the fee of get_friction_signals (line 113)
FrictionFee(cert) ==
    IF cert.cost # NoVal THEN cert.cost
    ELSE IF cert.exam_fee_usd # NoVal THEN cert.exam_fee_usd
         ELSE 0

\* the hours of get_friction_signals (lines 116-131), in half hours so that the
\* midpoint (lo + hi) / 2 stays an integer
FrictionHours2(cert) ==
    LET d == cert.duration
        lo == IF cert.recommended_hours_min \in {NoVal, Null} THEN 0
              ELSE cert.recommended_hours_min
        hi == IF cert.recommended_hours_max \in {NoVal, Null, 0}
              THEN lo ELSE cert.recommended_hours_max
    IN CASE d.kind = "hours" -> 2 * d.n
         [] d.kind = "weeks" -> 2 * (d.n * 40)
         [] d.kind = "days" -> 2 * (d.n * 8)
         [] d.kind \in {"malformed", "null"} -> lo + hi
         [] OTHER -> 0

get_friction_signals(cert) == [fee |-> FrictionFee(cert), hours |-> FrictionHours2(cert)]

NullLevel == "(null)"

\* None.lower() raises AttributeError at line 137
get_difficulty_weight_raises(cert) == cert.level = NullLevel

\* get_difficulty_weight
get_difficulty_weight(cert) ==
    LET level == IF cert.level = "" THEN "associate" ELSE cert.level
    IN IF level \in DOMAIN DIFFICULTY_WEIGHTS THEN DIFFICULTY_WEIGHTS[level]
       ELSE DIFFICULTY_WEIGHTS["associate"]

(***************************************************************************)
(* The scoring of one domain (main, lines 185-297).                        *)
(***************************************************************************)
\* the empty dict
EmptyMap == [x \in {} |-> 0]

\* signals[slug] of lines 199-210
SignalsOf(cert, demand_tbl, salary_tbl) ==
    [demand |-> get_demand_signal(cert, demand_tbl),
     salary |-> get_salary_signal(cert, salary_tbl),
     fee |-> get_friction_signals(cert).fee,
     hours |-> get_friction_signals(cert).hours,
     difficulty |-> get_difficulty_weight(cert),
     freshness |-> Scale]

\* demand_values, salary_values, fee_values, hours_values of lines 212-219:
\* the signals > 0 of the cohort, one per list entry
CohortValues(sigs) ==
    [demand |-> SelectPos([i \in 1..Len(sigs) |-> sigs[i].demand]),
     salary |-> SelectPos([i \in 1..Len(sigs) |-> sigs[i].salary]),
     fee |-> SelectPos([i \in 1..Len(sigs) |-> sigs[i].fee]),
     hours |-> SelectPos([i \in 1..Len(sigs) |-> sigs[i].hours])]

\* score_raw of lines 229-242
ScoreRaw(s, vals) ==
    LET demand_z == zscore(vals.demand, s.demand)
        salary_z == zscore(vals.salary, s.salary)
        fee_n == minmax_normalize(vals.fee, s.fee)
        hours_n == minmax_normalize(vals.hours, s.hours)
    IN RoundDiv(WEIGHTS.demand * demand_z
                + WEIGHTS.salary * salary_z
                + WEIGHTS.fee * (Scale - fee_n)
                + WEIGHTS.hours * (Scale - hours_n)
                + WEIGHTS.freshness * s.freshness, 100)
       + s.difficulty

\* obs of line 260
Obs(s) == (IF s.demand > 0 THEN 1 ELSE 0) + (IF s.salary > 0 THEN 1 ELSE 0)

\* mutant of Lam: the clamp to 0.6 is lost
Lam_NoClamp(obs) == Max(0, 10 - (10 * obs) \div 2)

\* lam of line 261, in tenths: max(0.0, min(0.6, 1 - obs/2))
Lam(obs) == Max(0, Min(6, 10 - (10 * obs) \div 2))

\* mutant of ScoreShrunk: shrinks toward the mean of the stored scores of the
\* previous run instead of the mean raw score of the cohort
ScoreShrunk_TowardStored(lam, domain_mean, score_raw) ==
    LET stored == IF trendsFile.state = "ok" /\ DOMAIN trendsFile.scores # {}
                  THEN trendsFile.scores[CHOOSE k \in DOMAIN trendsFile.scores : TRUE] + 1000
                  ELSE domain_mean
    IN RoundDiv(lam * stored + (10 - lam) * score_raw, 10)

\* score_shrunk of line 262
ScoreShrunk(lam, domain_mean, score_raw) ==
    RoundDiv(lam * domain_mean + (10 - lam) * score_raw, 10)

\* mutant of PrevScore: a missing previous score counts as 0.0
PrevScore_ZeroDefault(prev_scores, slug, score_shrunk) ==
    IF slug \in DOMAIN prev_scores THEN prev_scores[slug] ELSE 0

\* prev_score of line 265
PrevScore(prev_scores, slug, score_shrunk) ==
    IF slug \in DOMAIN prev_scores THEN prev_scores[slug] ELSE score_shrunk

\* mutant of ScoreT: ALPHA = 1.5, the smoothed score overshoots the shrunk one
ScoreT_Overshoot(score_shrunk, prev_score) ==
    RoundDiv(15 * score_shrunk - 5 * prev_score, 10)

\* mutant of ScoreT: the previous score is not scaled by 1 - ALPHA
ScoreT_NoDecay(score_shrunk, prev_score) ==
    RoundDiv(ALPHA * score_shrunk + 10 * prev_score, 10)

\* score_t of line 266
ScoreT(score_shrunk, prev_score) ==
    RoundDiv(ALPHA * score_shrunk + (10 - ALPHA) * prev_score, 10)

\* confidence of line 272
Confidence_HighFromOne(obs) == IF obs >= 1 THEN "high" ELSE "low"

Confidence(obs) == IF obs >= 2 THEN "high" ELSE IF obs >= 1 THEN "medium" ELSE "low"

\* mutant of KeyLess: the salary tie-break ascending, key (-score, salary, fee)
KeyLess_SalaryAscending(x, y) ==
    \/ x.score > y.score
    \/ x.score = y.score /\ x.salary < y.salary
    \/ x.score = y.score /\ x.salary = y.salary /\ x.fee < y.fee

\* the sort key of lines 292 and 300: (-score, -salary, fee), compared as tuples
KeyLess(x, y) ==
    \/ x.score > y.score
    \/ x.score = y.score /\ x.salary > y.salary
    \/ x.score = y.score /\ x.salary = y.salary /\ x.fee < y.fee

\* list.sort is stable: an entry goes before the first entry of a greater key
RECURSIVE InsertStable(_, _)
InsertStable(s, x) ==
    IF s = <<>> THEN <<x>>
    ELSE IF KeyLess(x, Head(s)) THEN <<x>> \o s
         ELSE <<Head(s)>> \o InsertStable(Tail(s), x)

RECURSIVE SortRankings(_)
SortRankings(s) ==
    IF s = <<>> THEN <<>>
    ELSE InsertStable(SortRankings(SubSeq(s, 1, Len(s) - 1)), s[Len(s)])

\* mutant of AddRanks: enumerate(domain_rankings) without the start of 1
AddRanks_FromZero(s) == [i \in 1..Len(s) |-> [s[i] EXCEPT !.rank = i - 1]]

\* lines 295-296: enumerate(domain_rankings, 1)
AddRanks(s) == [i \in 1..Len(s) |-> [s[i] EXCEPT !.rank = i]]

\* One pass of the loop body of line 185 for `domain`: the ranked entries of
\* the domain.  An entry carries, besides the fields of lines 274-289, the
\* loop's locals obs, lam, score_raw, score_shrunk and prev_score.
DomainRankings(domain, cert_slugs, certs_by_slug, demand_tbl, salary_tbl, prev_scores) ==
    LET n == Len(cert_slugs)
        sigs == [i \in 1..n |-> SignalsOf(certs_by_slug[cert_slugs[i]], demand_tbl, salary_tbl)]
        vals == CohortValues(sigs)
        raw == [i \in 1..n |-> ScoreRaw(sigs[i], vals)]
        domain_mean == IF n = 0 THEN 0 ELSE RoundDiv(SeqSum(raw), n)
        Entry(i) ==
            LET obs == Obs(sigs[i])
                lam == Lam(obs)
                shrunk == ScoreShrunk(lam, domain_mean, raw[i])
                prev == PrevScore(prev_scores, cert_slugs[i], shrunk)
            IN [slug |-> cert_slugs[i],
                domain |-> domain,
                score |-> ScoreT(shrunk, prev),
                confidence |-> Confidence(obs),
                job_postings |-> sigs[i].demand,
                salary |-> sigs[i].salary,
                fee |-> sigs[i].fee,
                hours |-> sigs[i].hours,
                rank |-> 0,
                obs |-> obs,
                lam |-> lam,
                score_raw |-> raw[i],
                score_shrunk |-> shrunk,
                prev_score |-> prev,
                seeded |-> cert_slugs[i] \notin DOMAIN prev_scores]
    IN AddRanks(SortRankings([i \in 1..n |-> Entry(i)]))

\* scores after the loop over a domain's certs (line 269): later entries
\* of a slug overwrite earlier ones.  `entries` is in processing order.
RECURSIVE StoreScores(_, _)
StoreScores(scores, entries) ==
    IF entries = <<>> THEN scores
    ELSE StoreScores(
           [k \in DOMAIN scores \cup {Head(entries).slug} |->
              IF k = Head(entries).slug THEN Head(entries).score ELSE scores[k]],
           Tail(entries))

(***************************************************************************)
(* Loading (main, lines 145-178).                                          *)
(*   a certification file:  [readable, certs]; load_json of an unreadable  *)
(*                          file raises inside the try of line 154         *)
(*   demand/metrics.json:   [exists, rows]                                 *)
(*   role_salaries.json:    [exists, table]                                *)
(*   rankings/trends.json:  [state, scores], state "absent", "ok" or       *)
(*                          "truncated" (opened for writing, not dumped)   *)
(*   rankings/today.json:   [state, rankings]                              *)
(***************************************************************************)
\* lines 156-161 for one cert: certifications[slug] = cert, domains[domain].append(slug)
LoadCert(acc, cert) ==
    [certs |-> [k \in DOMAIN acc.certs \cup {cert.slug} |->
                  IF k = cert.slug THEN cert ELSE acc.certs[k]],
     order |-> IF cert.domain \in DOMAIN acc.slugs THEN acc.order
               ELSE Append(acc.order, cert.domain),
     slugs |-> [d \in DOMAIN acc.slugs \cup {cert.domain} |->
                  IF d = cert.domain
                  THEN (IF d \in DOMAIN acc.slugs THEN Append(acc.slugs[d], cert.slug)
                        ELSE <<cert.slug>>)
                  ELSE acc.slugs[d]]]

RECURSIVE LoadCertList(_, _)
LoadCertList(acc, certs) ==
    IF certs = <<>> THEN acc ELSE LoadCertList(LoadCert(acc, Head(certs)), Tail(certs))

\* lines 153-163: a file that cannot be ld is reported and skipped
RECURSIVE LoadCertFiles(_, _)
LoadCertFiles(acc, files) ==
    IF files = <<>> THEN acc
    ELSE LoadCertFiles(
           IF Head(files).readable THEN LoadCertList(acc, Head(files).certs) ELSE acc,
           Tail(files))

\* certifications and domains after line 163 (domains: insertion order and lists)
LoadedCerts(files) ==
    LoadCertFiles([certs |-> EmptyMap, order |-> <<>>, slugs |-> EmptyMap], files)

\* lines 168-171
LoadDemand(file) == IF file.exists THEN file.rows ELSE EmptyMap

\* line 173: load_json returns {} for a missing file
LoadSalary(file) == IF file.exists THEN file.table ELSE EmptyMap

\* lines 177-178: trends.get('scores', {}) of load_json(trends_path)
LoadPrevious(file) == IF file.state = "ok" THEN file.scores ELSE EmptyMap

\* json.load of a file that was truncated raises (line 42, from line 177)
TrendsLoadRaises(file) == file.state = "truncated"

(***************************************************************************)
(* Lines 184-300: every domain in insertion order, then the global sort.   *)
(***************************************************************************)
RECURSIVE PerDomain(_, _, _, _, _)
\* all_rankings before the global sort: the ranked entries of each domain
PerDomain(order, ld, demand_tbl, salary_tbl, prev_scores) ==
    IF order = <<>> THEN <<>>
    ELSE DomainRankings(Head(order), ld.slugs[Head(order)], ld.certs,
                        demand_tbl, salary_tbl, prev_scores)
         \o PerDomain(Tail(order), ld, demand_tbl, salary_tbl, prev_scores)

GlobalSort_TiesReversed(rankings) ==
    SortRankings([i \in 1..Len(rankings) |-> rankings[Len(rankings) + 1 - i]])

\* line 300
GlobalSort(rankings) == SortRankings(rankings)

\* round(score, 4) of line 312
Round4(score) == RoundDiv(score, Scale \div 10000) * (Scale \div 10000)

\* lines 303-317
TodayRankings(rankings) ==
    [i \in 1..Len(rankings) |->
        [rank |-> rankings[i].rank,
         global_rank |-> i,
         slug |-> rankings[i].slug,
         domain |-> rankings[i].domain,
         score |-> Round4(rankings[i].score),
         confidence |-> rankings[i].confidence,
         job_postings |-> rankings[i].job_postings]]

(***************************************************************************)
(* Input pools.                                                            *)
(***************************************************************************)
Cert(slug, domain, postings, salary, cost, kind, n, level) ==
    [slug |-> slug, domain |-> domain, job_postings |-> postings, salary |-> salary,
     cost |-> cost, exam_fee_usd |-> NoVal, duration |-> [kind |-> kind, n |-> n],
     recommended_hours_min |-> NoVal, recommended_hours_max |-> NoVal, level |-> level]

\* Salaries in thousands of dollars.  Two records share the slug "a".
CertPool ==
    { Cert("a", "CS/IT", 0, NoVal, 100, "hours", 40, "associate"),
      Cert("b", "CS/IT", 50, 90, 100, "hours", 40, "associate"),
      Cert("c", "CS/IT", 100, 90, 100, "days", 5, "associate"),
      Cert("d", "CS/IT", 50, 120, 300, "weeks", 2, "associate"),
      Cert("a", "Finance", 50, 90, NoVal, "weeks", 1, "associate"),
      Cert("f", "Finance", 50, 120, NoVal, "absent", 0, "associate") }

RECURSIVE SeqsUpTo(_, _)
\* the sequences over S of length at most n
SeqsUpTo(S, n) ==
    IF n = 0 THEN {<<>>}
    ELSE LET shorter == SeqsUpTo(S, n - 1)
         IN shorter \cup {Append(s, x) : s \in {t \in shorter : Len(t) = n - 1}, x \in S}

CertFile(certs) == [readable |-> TRUE, certs |-> certs]
BadFile == [readable |-> FALSE, certs |-> <<>>]

\* The certifications directory: missing or empty, one unreadable file, one
\* file of up to MaxCerts records, or a file, an unreadable file and a file.
InputFiles ==
    LET seqs == SeqsUpTo(CertPool, MaxCerts)
    IN {<<>>, <<BadFile>>}
       \cup {<<CertFile(s)>> : s \in seqs \ {<<>>}}
       \cup {<<CertFile(<<x>>), BadFile, CertFile(<<y>>)>> : x, y \in CertPool}

NoDemand == [exists |-> FALSE, rows |-> EmptyMap]
SomeDemand == [exists |-> TRUE, rows |-> [k \in {"c"} |-> 0]]

NoSalary == [exists |-> FALSE, table |-> EmptyMap]
SomeSalary == [exists |-> TRUE, table |-> [k \in {"CS/IT"} |-> <<80, 100>>]]

NoTrends == [state |-> "absent", scores |-> EmptyMap]
SomeTrends ==
    [state |-> "ok",
     scores |-> [k \in {"a", "c", "gone"} |-> IF k = "a" THEN 30000 ELSE 50001]]

\* the tables on disk: all three present, one missing, or all missing
InputTables ==
    { [demand |-> SomeDemand, salary |-> SomeSalary, trends |-> SomeTrends],
      [demand |-> NoDemand, salary |-> SomeSalary, trends |-> SomeTrends],
      [demand |-> SomeDemand, salary |-> NoSalary, trends |-> SomeTrends],
      [demand |-> SomeDemand, salary |-> SomeSalary, trends |-> NoTrends],
      [demand |-> NoDemand, salary |-> NoSalary, trends |-> NoTrends] }

NoToday == [state |-> "absent", rankings |-> <<>>]

NoCerts == [certs |-> EmptyMap, order |-> <<>>, slugs |-> EmptyMap]

\* the files of the recommendation runs, all missing
NoIndex == [exists |-> FALSE, certs |-> <<>>]
NoCompanies == [exists |-> FALSE, by_domain |-> EmptyMap]
NoAffinity == [exists |-> FALSE, table |-> EmptyMap]
NoRecs == [state |-> "absent", script |-> "none", recs |-> EmptyMap]

\* no recommendation run: the files the ranking run does not touch
InitRecIdle ==
    /\ indexFile = NoIndex
    /\ companiesFile = NoCompanies
    /\ affinityFile = NoAffinity
    /\ recFile = NoRecs
    /\ recStatus = "idle"

\* no function is called on its own
NoCall == [fn |-> "none"]

InitFnIdle ==
    /\ fnIn = NoCall
    /\ fnOut = NoCall

InitLocals ==
    /\ pc = "idle"
    /\ runs = 0
    /\ loaded = NoCerts
    /\ demand_data = EmptyMap
    /\ salary_data = EmptyMap
    /\ previous_scores = EmptyMap
    /\ all_rankings = <<>>
    /\ new_scores = EmptyMap

Init ==
    /\ certFiles \in InputFiles
    /\ \E t \in InputTables :
         /\ demandFile = t.demand
         /\ salaryFile = t.salary
         /\ trendsFile = t.trends
    /\ todayFile = NoToday
    /\ trendsAtStart = trendsFile
    /\ todayAtStart = todayFile
    /\ history = <<>>
    /\ InitLocals
    /\ InitRecIdle
    /\ InitFnIdle

(***************************************************************************)
(* main(), as one step: a whole ranking run that nothing interrupts.       *)
(***************************************************************************)
\* all_rankings after line 300
RankedAll(ld, dd, sd, prev) == GlobalSort(PerDomain(ld.order, ld, dd, sd, prev))

NewScores_KeepsOld(ld, dd, sd, prev) == StoreScores(prev, PerDomain(ld.order, ld, dd, sd, prev))

\* new_scores after the loop of line 185
NewScores(ld, dd, sd, prev) == StoreScores(EmptyMap, PerDomain(ld.order, ld, dd, sd, prev))

\* save_json(today.json) of line 320, completed
SavedToday(rankings) == [state |-> "ok", rankings |-> TodayRankings(rankings)]

\* save_json(trends_path, trends_data) of lines 323-327, completed
SavedTrends(scores) == [state |-> "ok", scores |-> scores]

\* what a run leaves in the history
RunRecord(ins, start, rankings) == [inputs |-> ins, start |-> start, rankings |-> rankings]

\* no run is in progress
Resting == pc \in {"idle", "done", "interrupted", "crashed"}

\* lines 145-327 of a run that nothing interrupts
RunBody ==
    /\ Resting
    /\ ~TrendsLoadRaises(trendsFile)
    /\ LET ld == LoadedCerts(certFiles)
           dd == LoadDemand(demandFile)
           sd == LoadSalary(salaryFile)
           prev == LoadPrevious(trendsFile)
           ranked == RankedAll(ld, dd, sd, prev)
           scores == NewScores(ld, dd, sd, prev)
       IN /\ loaded' = ld
          /\ demand_data' = dd
          /\ salary_data' = sd
          /\ previous_scores' = prev
          /\ all_rankings' = ranked
          /\ new_scores' = scores
          /\ todayFile' = SavedToday(ranked)
          /\ trendsFile' = SavedTrends(scores)
    /\ pc' = "done"
    /\ trendsAtStart' = trendsFile
    /\ todayAtStart' = todayFile
    /\ UNCHANGED <<inputs, recvars, fnvars>>

RunRanking ==
    /\ runs < MaxRuns
    /\ runs' = runs + 1
    /\ RunBody
    /\ history' = Append(history, RunRecord(inputs, trendsFile, all_rankings'))

Next == RunRanking

Spec == Init /\ [][Next]_vars

(***************************************************************************)
(* main(), step by step, with the interruptions a run can suffer.          *)
(* save_json opens the file with mode "w", which empties it, and then      *)
(* dumps the document into it (lines 46-48).                               *)
(***************************************************************************)
\* the file between open(path, "w") and the end of json.dump
OpenedToday == [state |-> "truncated", rankings |-> <<>>]
OpenedTrends == [state |-> "truncated", scores |-> EmptyMap]

\* lines 145-182; json.load of a truncated trends.json raises at line 177
Load ==
    /\ Resting
    /\ runs < MaxRuns
    /\ runs' = runs + 1
    /\ trendsAtStart' = trendsFile
    /\ todayAtStart' = todayFile
    /\ loaded' = LoadedCerts(certFiles)
    /\ demand_data' = LoadDemand(demandFile)
    /\ salary_data' = LoadSalary(salaryFile)
    /\ previous_scores' = LoadPrevious(trendsFile)
    /\ all_rankings' = <<>>
    /\ new_scores' = EmptyMap
    /\ pc' = IF TrendsLoadRaises(trendsFile) THEN "crashed" ELSE "loaded"
    /\ UNCHANGED <<disk, history, recvars, fnvars>>

\* lines 184-317
Compute ==
    /\ pc = "loaded"
    /\ all_rankings' = RankedAll(loaded, demand_data, salary_data, previous_scores)
    /\ new_scores' = NewScores(loaded, demand_data, salary_data, previous_scores)
    /\ history' = Append(history, RunRecord(inputs, trendsAtStart, all_rankings'))
    /\ pc' = "computed"
    /\ UNCHANGED <<disk, runs, loaded, demand_data, salary_data, previous_scores,
                   trendsAtStart, todayAtStart, recvars, fnvars>>

\* line 320, open(path, "w")
OpenToday ==
    /\ pc = "computed"
    /\ todayFile' = OpenedToday
    /\ pc' = "today_open"
    /\ UNCHANGED <<inputs, trendsFile, runs, locals, trendsAtStart, todayAtStart, history, recvars, fnvars>>

DumpToday_WritesTrends ==
    /\ pc = "today_open"
    /\ todayFile' = SavedToday(all_rankings)
    /\ trendsFile' = SavedTrends(new_scores)
    /\ pc' = "today_saved"
    /\ UNCHANGED <<inputs, runs, locals, trendsAtStart, todayAtStart, history, recvars, fnvars>>

\* line 320, json.dump and close
DumpToday ==
    /\ pc = "today_open"
    /\ todayFile' = SavedToday(all_rankings)
    /\ pc' = "today_saved"
    /\ UNCHANGED <<inputs, trendsFile, runs, locals, trendsAtStart, todayAtStart, history, recvars, fnvars>>

\* line 327, open(path, "w")
OpenTrends ==
    /\ pc = "today_saved"
    /\ trendsFile' = OpenedTrends
    /\ pc' = "trends_open"
    /\ UNCHANGED <<inputs, todayFile, runs, locals, trendsAtStart, todayAtStart, history, recvars, fnvars>>

\* line 327, json.dump and close
DumpTrends ==
    /\ pc = "trends_open"
    /\ trendsFile' = SavedTrends(new_scores)
    /\ pc' = "done"
    /\ UNCHANGED <<inputs, todayFile, runs, locals, trendsAtStart, todayAtStart, history, recvars, fnvars>>

\* the process is killed, or a write raises (disk full), at any point of the run
Interrupt ==
    /\ pc \in {"loaded", "computed", "today_open", "today_saved", "trends_open"}
    /\ pc' = "interrupted"
    /\ UNCHANGED <<disk, runs, locals, trendsAtStart, todayAtStart, history, recvars, fnvars>>

\* the certifications directories of the step-by-step specification
StepInputFiles ==
    LET seqs == SeqsUpTo(CertPool, MaxCerts - 2)
    IN {<<>>, <<BadFile>>}
       \cup {<<CertFile(s)>> : s \in seqs \ {<<>>}}
       \cup {<<BadFile, CertFile(<<x>>)>> : x \in CertPool}

InitSteps ==
    /\ certFiles \in StepInputFiles
    /\ \E t \in InputTables :
         /\ demandFile = t.demand
         /\ salaryFile = t.salary
         /\ trendsFile = t.trends
    /\ todayFile = NoToday
    /\ trendsAtStart = trendsFile
    /\ todayAtStart = todayFile
    /\ history = <<>>
    /\ InitLocals
    /\ InitRecIdle
    /\ InitFnIdle

NextSteps ==
    \/ Load
    \/ Compute
    \/ OpenToday
    \/ DumpToday
    \/ OpenTrends
    \/ DumpTrends
    \/ Interrupt

SpecSteps == InitSteps /\ [][NextSteps]_vars

(***************************************************************************)
(* The pipeline run period after period on unchanged inputs: main() again  *)
(* and again, each run reading the trend store the run before it wrote.    *)
(* The run counter stops at MaxRuns and no history is kept, so that the    *)
(* runs can go on for ever.                                                *)
(***************************************************************************)
RunRepeated ==
    /\ runs' = Min(runs + 1, MaxRuns)
    /\ RunBody
    /\ UNCHANGED history

NextRepeated == RunRepeated

SpecRepeated == InitSteps /\ [][NextRepeated]_vars

(***************************************************************************)
(* Company recommendations: generate_enhanced_recommendations() of         *)
(* scripts/enhanced_company_recommendations.py and main() of               *)
(* scripts/build_demand_company.py.  Both write                            *)
(* companies/recommendations.json.                                         *)
(*                                                                         *)
(* The name and the issuer of a certification enter the scripts through    *)
(* substring tests only ("aws" in cert_name); a record of the index holds  *)
(* in `terms` the strings of the scripts' lists that occur in its          *)
(* lower-cased name or issuer.  Levels are stored lower-cased.             *)
(***************************************************************************)
RoleInfo(keywords, tech_stack, cert_patterns) ==
    [keywords |-> keywords, tech_stack |-> tech_stack, cert_patterns |-> cert_patterns]

\* DOMAIN_ROLES of enhanced_company_recommendations.py
DOMAIN_ROLES ==
    "CS/IT" :>
       ( "Cloud Engineer" :>
             RoleInfo(<<"cloud engineer", "aws", "azure", "gcp", "terraform", "kubernetes">>,
                      <<"docker", "terraform", "ansible", "jenkins", "git">>,
                      <<"aws", "azure", "gcp", "kubernetes">>)
      @@ "DevOps Engineer" :>
             RoleInfo(<<"devops", "sre", "ci/cd", "kubernetes", "docker">>,
                      <<"jenkins", "gitlab", "circleci", "docker", "kubernetes">>,
                      <<"docker", "kubernetes", "jenkins", "aws", "azure">>)
      @@ "Security Engineer" :>
             RoleInfo(<<"security engineer", "siem", "incident response", "cissp", "soc">>,
                      <<"splunk", "wireshark", "nmap", "metasploit", "burp">>,
                      <<"cissp", "security+", "ceh", "cism">>)
      @@ "Data Engineer" :>
             RoleInfo(<<"data engineer", "etl", "spark", "snowflake", "bigquery", "redshift">>,
                      <<"python", "sql", "spark", "kafka", "airflow">>,
                      <<"snowflake", "databricks", "aws", "gcp">>)
      @@ "Network Engineer" :>
             RoleInfo(<<"network engineer", "ccna", "bgp", "cisco">>,
                      <<"cisco", "juniper", "palo alto", "fortinet">>,
                      <<"ccna", "ccnp", "jncia", "fortinet">>)
      @@ "Software Engineer" :>
             RoleInfo(<<"software engineer", "developer", "programming", "java", "python">>,
                      <<"git", "docker", "kubernetes", "react", "node">>,
                      <<"aws", "azure", "oracle", "microsoft">>) )
 @@ "Engineering / Business" :>
       ( "Project Manager" :>
             RoleInfo(<<"project manager", "pmp", "agile", "scrum master">>,
                      <<"jira", "confluence", "microsoft project", "slack">>,
                      <<"pmp", "capm", "safe", "scrum">>)
      @@ "Business Analyst" :>
             RoleInfo(<<"business analyst", "requirements", "process improvement">>,
                      <<"excel", "tableau", "power bi", "visio">>,
                      <<"pmp", "six sigma", "lean">>)
      @@ "Quality Engineer" :>
             RoleInfo(<<"quality engineer", "six sigma", "cqe", "asq">>,
                      <<"minitab", "r", "spc", "lean tools">>,
                      <<"six sigma", "lean", "cqe", "asq">>)
      @@ "Civil Engineer" :>
             RoleInfo(<<"civil engineer", "pe", "structural">>,
                      <<"autocad", "revit", "civil 3d", "staad">>,
                      <<"pe", "se", "leed">>) )

\* sum(1 for x in list if x in cert_text)
Matches(list, terms) == Cardinality({i \in 1..Len(list) : list[i] \in terms})

\* get_technology_stack_alignment
get_technology_stack_alignment(cert, role_info) ==
    Min(RoundDiv((Matches(role_info.cert_patterns, cert.terms) * 2
                    + Matches(role_info.tech_stack, cert.terms)) * Scale,
                 Max(Len(role_info.cert_patterns) * 2 + Len(role_info.tech_stack), 1)),
        Scale)

\* get_issuer_affinity, and line 469 of build_demand_company.py:
\* affinity_table.get(company_name, {}).get(cert_issuer, 0.0)
get_issuer_affinity(company_name, cert_issuer, affinity_table) ==
    IF company_name \in DOMAIN affinity_table
         /\ cert_issuer \in DOMAIN affinity_table[company_name]
    THEN affinity_table[company_name][cert_issuer]
    ELSE 0

\* calculate_market_demand_signal: demand_tbl maps a slug to job_postings_30d
calculate_market_demand_signal(cert_slug, demand_tbl) ==
    LET postings_30d == IF cert_slug \in DOMAIN demand_tbl /\ demand_tbl[cert_slug] # NoVal
                        THEN demand_tbl[cert_slug] ELSE 0
    IN IF postings_30d > 500 THEN Scale
       ELSE IF postings_30d > 100 THEN 8 * (Scale \div 10)
       ELSE IF postings_30d > 50 THEN 6 * (Scale \div 10)
       ELSE IF postings_30d > 10 THEN 4 * (Scale \div 10)
       ELSE IF postings_30d > 0 THEN 2 * (Scale \div 10)
       ELSE 0

\* calculate_certification_difficulty_bonus
calculate_certification_difficulty_bonus(cert) ==
    LET level_scores == [foundational |-> 2, associate |-> 4, professional |-> 8,
                         expert |-> 10, specialty |-> 6]
    IN (IF cert.level \in DOMAIN level_scores THEN level_scores[cert.level] ELSE 4)
         * (Scale \div 10)

\* alignment_scores[role] of enhanced_role_alignment (lines 172-187)
CombinedScore(cert, role_info) ==
    LET keywords == role_info.keywords
        keyword_score == Min(RoundDiv(Matches(keywords, cert.terms) * Scale,
                                      Max(Len(keywords), 1)), Scale)
        tech_score == get_technology_stack_alignment(cert, role_info)
    IN RoundDiv(6 * keyword_score + 4 * tech_score, 10)

\* best_role of a certification that no role of the company matches: None
NoRole == "(none)"

\* the keys of alignment_scores in insertion order: the roles of comp_roles,
\* in the order the loop of line 172 meets them, that the domain knows
AlignedRoles(comp_roles, domain_roles) ==
    SelectSeq(comp_roles, LAMBDA role : role \in DOMAIN domain_roles)

\* max(alignment_scores, key=alignment_scores.get) of line 191: the first key,
\* in insertion order, of the greatest score
BestRole(cert, roles, domain_roles) ==
    roles[CHOOSE i \in 1..Len(roles) :
            /\ \A j \in 1..Len(roles) :
                 CombinedScore(cert, domain_roles[roles[i]])
                   >= CombinedScore(cert, domain_roles[roles[j]])
            /\ \A j \in 1..(i - 1) :
                 CombinedScore(cert, domain_roles[roles[j]])
                   < CombinedScore(cert, domain_roles[roles[i]])]

\* enhanced_role_alignment: score, best_role and tech_alignment of the result.
\* comp_roles is the company's role set as the sequence in which the loop of
\* line 172 iterates over it.
enhanced_role_alignment(cert, comp_roles, domain_roles) ==
    LET roles == AlignedRoles(comp_roles, domain_roles)
    IN IF roles = <<>> THEN [score |-> 0, best_role |-> NoRole, tech_alignment |-> 0]
       ELSE LET best_role == BestRole(cert, roles, domain_roles)
            IN [score |-> CombinedScore(cert, domain_roles[best_role]),
                best_role |-> best_role,
                tech_alignment |->
                    get_technology_stack_alignment(cert, domain_roles[best_role])]

\* DOMAIN_MAP and the keys of DOMAIN_ROLES of build_demand_company.py
DOMAIN_MAP ==
    "CS / IT" :> "cs-it" @@ "CS/IT" :> "cs-it"
    @@ "Engineering / Business" :> "engineering-business"
    @@ "Engineering/Business" :> "engineering-business"
    @@ "Healthcare" :> "healthcare" @@ "Finance" :> "finance"
    @@ "Skilled Trades" :> "skilled-trades" @@ "Skilled-Trades" :> "skilled-trades"

DOMAIN_SLUGS == {"cs-it", "engineering-business", "healthcare", "finance", "skilled-trades"}

\* normalize_domain_slug
normalize_domain_slug(domain_label) ==
    IF domain_label \in DOMAIN DOMAIN_MAP THEN DOMAIN_MAP[domain_label] ELSE "cs-it"

\* infer_cert_roles: the roles each term of the model's vocabulary adds.
\* "kubernetes" contains "rn", the term of line 299.
TermRoles ==
    "aws" :> {"Cloud Engineer", "DevOps Engineer"}
    @@ "cloud" :> {"Cloud Engineer"}
    @@ "security" :> {"Security Engineer"}
    @@ "cissp" :> {"Security Engineer"}
    @@ "kubernetes" :> {"Registered Nurse (RN)"}
    @@ "cfa" :> {"Financial Analyst", "Portfolio Manager"}

infer_cert_roles(cert) == UNION {TermRoles[t] : t \in cert.terms \cap DOMAIN TermRoles}

\* role_alignment of build_demand_company.py: the Jaccard index
role_alignment(cert_roles, comp_roles) ==
    IF comp_roles = {} \/ cert_roles = {} THEN 0
    ELSE RoundDiv(Cardinality(cert_roles \cap comp_roles) * Scale,
                  Cardinality(cert_roles \cup comp_roles))

\* {r["slug"]: r["score"]} of the rankings list: the last entry of a slug wins
RankingScores(rankings_list) ==
    [s \in {rankings_list[i].slug : i \in 1..Len(rankings_list)} |->
        rankings_list[CHOOSE i \in 1..Len(rankings_list) :
                        /\ rankings_list[i].slug = s
                        /\ \A j \in (i + 1)..Len(rankings_list) : rankings_list[j].slug # s].score]

\* fees: [float(c["exam_fee_usd"]) for c in certs if c.get("exam_fee_usd")]
RECURSIVE Fees(_)
Fees(certs) ==
    IF certs = <<>> THEN <<>>
    ELSE (IF Head(certs).exam_fee_usd # NoVal /\ Head(certs).exam_fee_usd # 0
          THEN <<Head(certs).exam_fee_usd>> ELSE <<>>) \o Fees(Tail(certs))

\* fee_penalty: (fee - fmin) / (fmax - fmin + 1e-9), which is 0.0 when all
\* fees are equal
fee_penalty(cert, fees) ==
    IF fees = <<>> \/ cert.exam_fee_usd = NoVal \/ cert.exam_fee_usd = 0 THEN 0
    ELSE IF SeqMax(fees) = SeqMin(fees) THEN 0
    ELSE RoundDiv((cert.exam_fee_usd - SeqMin(fees)) * Scale, SeqMax(fees) - SeqMin(fees))

\* global_rank_norm: (s - rmin) / (rmax - rmin + 1e-9).  The scores of
\* today.json are multiples of 1/10000.
global_rank_norm(slug, rank_scores) ==
    LET unit == Scale \div 10000
        all == {rank_scores[s] : s \in DOMAIN rank_scores}
        rmin == CHOOSE x \in all : \A y \in all : x <= y
        rmax == CHOOSE x \in all : \A y \in all : x >= y
    IN IF slug \notin DOMAIN rank_scores THEN 0
       ELSE IF rmax = rmin THEN 0
       ELSE RoundDiv(((rank_scores[slug] - rmin) \div unit) * (Scale \div unit),
                     (rmax - rmin) \div unit) * unit

\* cert_by_slug = {c["slug"]: c for c in certs}: the last record of a slug wins
CertBySlug(certs) ==
    [s \in {certs[i].slug : i \in 1..Len(certs)} |->
        certs[CHOOSE i \in 1..Len(certs) :
                /\ certs[i].slug = s
                /\ \A j \in (i + 1)..Len(certs) : certs[j].slug # s]]

\* domain_certs of enhanced_company_recommendations.py (line 269)
RECURSIVE DomainCerts(_, _)
DomainCerts(certs, domain) ==
    IF certs = <<>> THEN <<>>
    ELSE (IF Head(certs).domain = domain THEN <<Head(certs).slug>> ELSE <<>>)
         \o DomainCerts(Tail(certs), domain)

\* domain_certs of build_demand_company.py (line 453)
RECURSIVE DomainCertsBySlug(_, _)
DomainCertsBySlug(certs, domain) ==
    IF certs = <<>> THEN <<>>
    ELSE (IF normalize_domain_slug(Head(certs).domain) = domain
          THEN <<Head(certs).slug>> ELSE <<>>)
         \o DomainCertsBySlug(Tail(certs), domain)

\* round(x, 3) of the signals
Round3(x) == RoundDiv(x, Scale \div 1000) * (Scale \div 1000)

\* lines 279-327 of enhanced_company_recommendations.py: (slug, fit_score, signals)
EnhancedScored(slug, cert, comp, comp_roles, domain_role_info, rank_scores, demand_tbl, affinity, fees) ==
    LET role_alignment_result == enhanced_role_alignment(cert, comp_roles, domain_role_info)
        ra == role_alignment_result.score
        issuer_affinity == get_issuer_affinity(comp.name, cert.issuer, affinity)
        global_rank == global_rank_norm(slug, rank_scores)
        market_demand == calculate_market_demand_signal(slug, demand_tbl)
        difficulty_bonus == calculate_certification_difficulty_bonus(cert)
        cost_penalty == fee_penalty(cert, fees)
    IN [slug |-> slug,
        fit_score |-> RoundDiv(40 * ra + 25 * issuer_affinity + 20 * global_rank
                                 + 10 * market_demand + 5 * difficulty_bonus
                                 - 5 * cost_penalty, 100),
        signals |-> [role_alignment |-> Round3(ra),
                     issuer_affinity |-> Round3(issuer_affinity),
                     global_rank_norm |-> Round3(global_rank),
                     market_demand |-> Round3(market_demand),
                     difficulty_bonus |-> Round3(difficulty_bonus),
                     cost_penalty |-> Round3(cost_penalty),
                     tech_alignment |-> Round3(role_alignment_result.tech_alignment),
                     best_role_match |-> role_alignment_result.best_role,
                     mention_count |-> 0,
                     mention_z |-> 0]]

\* lines 459-483 of build_demand_company.py: (slug, fit_score, signals)
BuildScored(slug, cert, comp, rank_scores, affinity, fees) ==
    LET ra == role_alignment(infer_cert_roles(cert), comp.top_roles)
        gn == global_rank_norm(slug, rank_scores)
        fp == fee_penalty(cert, fees)
        ia == get_issuer_affinity(comp.name, cert.issuer, affinity)
    IN [slug |-> slug,
        fit_score |-> RoundDiv(50 * ra + 30 * gn + 20 * ia - 5 * fp, 100),
        signals |-> [role_alignment |-> Round3(ra),
                     issuer_affinity |-> Round3(ia),
                     global_rank_norm |-> Round3(gn),
                     cost_penalty |-> Round3(fp)]]

\* mutant of InsertScored: scored.sort(key=lambda x: x[1]) without reverse=True
RECURSIVE InsertScored_Ascending(_, _)
InsertScored_Ascending(s, x) ==
    IF s = <<>> THEN <<x>>
    ELSE IF x.fit_score < Head(s).fit_score THEN <<x>> \o s
         ELSE <<Head(s)>> \o InsertScored_Ascending(Tail(s), x)

\* scored.sort(key=lambda x: x[1], reverse=True) is stable: an entry goes
\* before the first entry of a smaller fit score
RECURSIVE InsertScored(_, _)
InsertScored(s, x) ==
    IF s = <<>> THEN <<x>>
    ELSE IF x.fit_score > Head(s).fit_score THEN <<x>> \o s
         ELSE <<Head(s)>> \o InsertScored(Tail(s), x)

RECURSIVE SortScored(_)
SortScored(s) ==
    IF s = <<>> THEN <<>>
    ELSE InsertScored(SortScored(SubSeq(s, 1, Len(s) - 1)), s[Len(s)])

TopThree_TopTwo(scored) ==
    [i \in 1..Min(2, Len(scored)) |-> [scored[i] EXCEPT !.fit_score = Round4(@)]]

\* the list written for a company: scored[:3] with fit_score rounded to 4 places
TopThree(scored) ==
    [i \in 1..Min(3, Len(scored)) |-> [scored[i] EXCEPT !.fit_score = Round4(@)]]

\* comp of the last company of comp_list with this slug: a later assignment
\* to recommendations[domain][comp["slug"]] replaces an earlier one
CompanyOf(comp_list, comp_slug) ==
    comp_list[CHOOSE i \in 1..Len(comp_list) :
                /\ comp_list[i].slug = comp_slug
                /\ \A j \in (i + 1)..Len(comp_list) : comp_list[j].slug # comp_slug]

CompanySlugs(comp_list) == {comp_list[i].slug : i \in 1..Len(comp_list)}

\* the sequences that list every element of a set once
Orders(S) ==
    {s \in [1..Cardinality(S) -> S] : \A i, j \in 1..Cardinality(S) : s[i] = s[j] => i = j}

\* the role sets of the roster: set(comp["top_roles"].keys()) of line 276
RoleSets(companies) ==
    UNION {{companies[d][i].top_roles : i \in 1..Len(companies[d])} : d \in DOMAIN companies}

\* the iteration orders one process can give the role sets: the order of a
\* set of strings follows the hashes of the strings, which the interpreter
\* salts anew in every process
IterationOrders(companies) ==
    {iteration \in [RoleSets(companies) -> UNION {Orders(S) : S \in RoleSets(companies)}] :
       \A S \in RoleSets(companies) : iteration[S] \in Orders(S)}

\* recommendations after the loop of line 268 (a defaultdict: a domain
\* without companies gets no key)
EnhancedRecommendations(certs, rank_scores, demand_tbl, companies, affinity, iteration) ==
    [domain \in {d \in DOMAIN companies : companies[d] # <<>>} |->
        [comp_slug \in CompanySlugs(companies[domain]) |->
            LET comp == CompanyOf(companies[domain], comp_slug)
                domain_certs == DomainCerts(certs, domain)
                domain_role_info == IF domain \in DOMAIN DOMAIN_ROLES
                                    THEN DOMAIN_ROLES[domain] ELSE EmptyMap
                scored == [i \in 1..Len(domain_certs) |->
                             EnhancedScored(domain_certs[i], CertBySlug(certs)[domain_certs[i]],
                                            comp, iteration[comp.top_roles], domain_role_info,
                                            rank_scores, demand_tbl, affinity, Fees(certs))]
            IN TopThree(SortScored(scored))]]

\* recommendations after the loop of line 452 of build_demand_company.py
BuildRecommendations(certs, rank_scores, companies, affinity) ==
    [domain \in {d \in DOMAIN companies : companies[d] # <<>>} |->
        [comp_slug \in CompanySlugs(companies[domain]) |->
            LET comp == CompanyOf(companies[domain], comp_slug)
                domain_certs == DomainCertsBySlug(certs, domain)
                scored == [i \in 1..Len(domain_certs) |->
                             BuildScored(domain_certs[i], CertBySlug(certs)[domain_certs[i]],
                                         comp, rank_scores, affinity, Fees(certs))]
            IN TopThree(SortScored(scored))]]

(***************************************************************************)
(* Files of the recommendation runs.                                       *)
(*   certifications index:         [exists, certs] (the shards that        *)
(*                                 index.map.json names, or index.json)    *)
(*   companies/by_domain.json:     [exists, by_domain]                     *)
(*   issuer_company_affinity.csv:  [exists, table]                         *)
(*   companies/recommendations.json: [state, script, recs]                 *)
(***************************************************************************)
IndexFile(certs) == [exists |-> TRUE, certs |-> certs]

CompaniesFile(by_domain) == [exists |-> TRUE, by_domain |-> by_domain]

SavedRecs(script, recs) == [state |-> "ok", script |-> script, recs |-> recs]

Company(slug, name, top_roles) == [slug |-> slug, name |-> name, top_roles |-> top_roles]

\* top_companies_for_domain without the job API: no key of DOMAIN_ROLES is
\* one of the labels of lines 178-205, so every domain gets the seeds of
\* line 207, which have no top roles
HeuristicCompanies ==
    [d \in DOMAIN_SLUGS |->
        <<Company("generic-corp", "Generic Corp", {}),
          Company("tech-solutions", "Tech Solutions", {}),
          Company("professional-services", "Professional Services", {})>>]

\* top_companies_for_domain with the job API: companies and roles as the
\* postings name them
ApiCompanies ==
    [d \in DOMAIN_SLUGS |->
        IF d = "cs-it"
        THEN <<Company("amazon", "Amazon", {"Cloud Engineer", "DevOps Engineer"}),
               Company("cisco", "Cisco", {"Security Engineer"})>>
        ELSE <<>>]

BuiltCompanies == {HeuristicCompanies, ApiCompanies}

\* demand_metrics of lines 386-393
ZeroDemand(certs) ==
    [exists |-> TRUE, rows |-> [s \in {certs[i].slug : i \in 1..Len(certs)} |-> 0]]

\* role_salaries of lines 404-413: keyed by role, eight roles
BaselineSalaries ==
    [exists |-> TRUE,
     table |-> [r \in {"Cloud Engineer", "DevOps Engineer", "Security Engineer",
                       "Data Engineer", "Network Engineer", "Software Engineer",
                       "Project Manager", "Business Analyst"} |-> <<>>]]

\* rankings of lines 225-228 (lines 424-427 of build_demand_company.py)
LoadRankings(file) == IF file.state = "ok" THEN RankingScores(file.rankings) ELSE EmptyMap

\* json.load of a today.json that a write left truncated raises
TodayLoadRaises(file) == file.state = "truncated"

\* companies_data of line 235
LoadCompanies(file) == IF file.exists THEN file.by_domain ELSE EmptyMap

\* generate_enhanced_recommendations(), as one step of one process
generate_enhanced_recommendations ==
    /\ IF TodayLoadRaises(todayFile)
       THEN /\ recStatus' = "crashed"
            /\ UNCHANGED recFile
       ELSE /\ recStatus' = "done"
            /\ \E iteration \in IterationOrders(LoadCompanies(companiesFile)) :
                 recFile' = SavedRecs("enhanced",
                              EnhancedRecommendations(
                                IF indexFile.exists THEN indexFile.certs ELSE <<>>,
                                LoadRankings(todayFile),
                                LoadDemand(demandFile),
                                LoadCompanies(companiesFile),
                                IF affinityFile.exists THEN affinityFile.table ELSE EmptyMap,
                                iteration))
    /\ UNCHANGED <<disk, indexFile, companiesFile, affinityFile>>
    /\ UNCHANGED <<pc, runs, locals, trendsAtStart, todayAtStart, history, fnvars>>

\* main() of build_demand_company.py, as one step.  load_json of a missing
\* index.json raises before anything is written; a truncated today.json
\* raises after metrics.json, role_salaries.json and by_domain.json are
\* written.
build_demand_company ==
    /\ IF ~indexFile.exists
       THEN /\ recStatus' = "crashed"
            /\ UNCHANGED <<demandFile, salaryFile, companiesFile, recFile>>
       ELSE \E companies \in BuiltCompanies :
              /\ demandFile' = ZeroDemand(indexFile.certs)
              /\ salaryFile' = IF salaryFile.exists THEN salaryFile ELSE BaselineSalaries
              /\ companiesFile' = CompaniesFile(companies)
              /\ IF TodayLoadRaises(todayFile)
                 THEN /\ recStatus' = "crashed"
                      /\ UNCHANGED recFile
                 ELSE /\ recStatus' = "done"
                      /\ recFile' = SavedRecs("build",
                                      BuildRecommendations(
                                        indexFile.certs,
                                        LoadRankings(todayFile),
                                        companies,
                                        IF affinityFile.exists THEN affinityFile.table
                                        ELSE EmptyMap))
    /\ UNCHANGED <<certFiles, trendsFile, todayFile, indexFile, affinityFile>>
    /\ UNCHANGED <<pc, runs, locals, trendsAtStart, todayAtStart, history, fnvars>>

\* a record of the certifications index; two records of the pool share the slug "a"
IndexCert(slug, domain, issuer, fee, level, terms) ==
    [slug |-> slug, domain |-> domain, issuer |-> issuer, exam_fee_usd |-> fee,
     level |-> level, terms |-> terms]

IndexPool ==
    { IndexCert("a", "CS/IT", "AWS", 150, "associate", {"aws"}),
      IndexCert("b", "CS/IT", "ISC2", 700, "expert", {"cissp", "security"}),
      IndexCert("c", "CS/IT", "CNCF", NoVal, "professional", {"kubernetes"}),
      IndexCert("d", "CS/IT", "AWS", 300, "specialty", {"aws", "security"}),
      IndexCert("f", "Finance", "CFA Institute", 1000, "", {"cfa"}),
      IndexCert("a", "Finance", "CFA Institute", 0, "foundational", {"cfa"}) }

\* the indexes of the model: up to MaxIndex records of the pool, none twice
IndexFiles ==
    {NoIndex} \cup {IndexFile(s) : s \in {t \in SeqsUpTo(IndexPool, MaxIndex) :
                                           \A i, j \in 1..Len(t) : t[i] = t[j] => i = j}}

\* today.json as a ranking run over these certifications wrote it
RankedToday(certs) ==
    SavedToday(RankedAll(LoadedCerts(<<CertFile(certs)>>), EmptyMap, EmptyMap, EmptyMap))

RecTodays ==
    { NoToday,
      OpenedToday,
      RankedToday(<<Cert("b", "CS/IT", 50, 90, 100, "hours", 40, "associate"),
                    Cert("c", "CS/IT", 100, 90, 100, "days", 5, "associate"),
                    Cert("d", "CS/IT", 50, 120, 300, "weeks", 2, "associate")>>) }

SomeCompanies ==
    CompaniesFile(
        "CS/IT" :> <<Company("amazon", "Amazon", {"Cloud Engineer", "Security Engineer"}),
                     Company("cisco", "Cisco", {"Network Engineer", "Data Engineer"})>>
     @@ "Finance" :> <<Company("goldman-sachs", "Goldman Sachs", {"Financial Analyst"})>>
     @@ "Healthcare" :> <<>>)

SomeAffinity ==
    [exists |-> TRUE,
     table |-> "Amazon" :> ("AWS" :> 9 * (Scale \div 10) @@ "CNCF" :> 5 * (Scale \div 10))]

RecDemand == [exists |-> TRUE, rows |-> "a" :> 600 @@ "b" :> 20 @@ "d" :> NoVal]

InitRec ==
    /\ indexFile \in IndexFiles
    /\ companiesFile \in {NoCompanies, SomeCompanies}
    /\ affinityFile = SomeAffinity
    /\ todayFile \in RecTodays
    /\ demandFile = RecDemand
    /\ salaryFile = NoSalary
    /\ certFiles = <<>>
    /\ trendsFile = NoTrends
    /\ recFile = NoRecs
    /\ recStatus = "idle"
    /\ trendsAtStart = trendsFile
    /\ todayAtStart = todayFile
    /\ history = <<>>
    /\ InitLocals
    /\ InitFnIdle

NextRec ==
    \/ generate_enhanced_recommendations
    \/ build_demand_company

SpecRec == InitRec /\ [][NextRec]_vars

\* an index with a record whose domain label is not one of DOMAIN_MAP
LabelPool ==
    { IndexCert("a", "CS/IT", "AWS", 150, "associate", {"aws"}),
      IndexCert("u", "Design", "Adobe", 200, "associate", {}),
      IndexCert("f", "Finance", "CFA Institute", 1000, "", {"cfa"}) }

LabelIndexFiles ==
    {NoIndex} \cup {IndexFile(s) : s \in {t \in SeqsUpTo(LabelPool, MaxIndex) :
                                           \A i, j \in 1..Len(t) : t[i] = t[j] => i = j}}

InitRecLabels ==
    /\ indexFile \in LabelIndexFiles
    /\ companiesFile \in {NoCompanies, SomeCompanies}
    /\ affinityFile = SomeAffinity
    /\ todayFile \in RecTodays
    /\ demandFile = RecDemand
    /\ salaryFile = NoSalary
    /\ certFiles = <<>>
    /\ trendsFile = NoTrends
    /\ recFile = NoRecs
    /\ recStatus = "idle"
    /\ trendsAtStart = trendsFile
    /\ todayAtStart = todayFile
    /\ history = <<>>
    /\ InitLocals
    /\ InitFnIdle

SpecRecLabels == InitRecLabels /\ [][NextRec]_vars

(***************************************************************************)
(* The signal extractors called on their own, on one record and a pair of  *)
(* tables (compute_rankings.py lines 85-138).                              *)
(***************************************************************************)
\* what a call returned, or that it raised
Returned(value) == [raised |-> FALSE, value |-> value]
Raised == [raised |-> TRUE, value |-> 0]

call_get_demand_signal ==
    /\ fnIn.fn = "extract"
    /\ fnOut' = [fn |-> "get_demand_signal",
                 out |-> IF get_demand_signal_raises(fnIn.cert, fnIn.demand) THEN Raised
                         ELSE Returned(get_demand_signal(fnIn.cert, fnIn.demand))]
    /\ UNCHANGED <<disk, pc, runs, locals, trendsAtStart, todayAtStart, history, recvars, fnIn>>

call_get_salary_signal ==
    /\ fnIn.fn = "extract"
    /\ fnOut' = [fn |-> "get_salary_signal",
                 out |-> Returned(get_salary_signal(fnIn.cert, fnIn.salary))]
    /\ UNCHANGED <<disk, pc, runs, locals, trendsAtStart, todayAtStart, history, recvars, fnIn>>

call_get_friction_signals ==
    /\ fnIn.fn = "extract"
    /\ fnOut' = [fn |-> "get_friction_signals",
                 out |-> IF FrictionFeeRaises(fnIn.cert) THEN Raised
                         ELSE Returned(get_friction_signals(fnIn.cert))]
    /\ UNCHANGED <<disk, pc, runs, locals, trendsAtStart, todayAtStart, history, recvars, fnIn>>

call_get_difficulty_weight ==
    /\ fnIn.fn = "extract"
    /\ fnOut' = [fn |-> "get_difficulty_weight",
                 out |-> IF get_difficulty_weight_raises(fnIn.cert) THEN Raised
                         ELSE Returned(get_difficulty_weight(fnIn.cert))]
    /\ UNCHANGED <<disk, pc, runs, locals, trendsAtStart, todayAtStart, history, recvars, fnIn>>

\* a record with a slug, a domain and the optional fields the extractors read
Record(postings, salary, cost, fee, duration, lo, hi, level) ==
    [slug |-> "a", domain |-> "CS/IT", job_postings |-> postings, salary |-> salary,
     cost |-> cost, exam_fee_usd |-> fee, duration |-> duration,
     recommended_hours_min |-> lo, recommended_hours_max |-> hi, level |-> level]

Durations ==
    { [kind |-> "absent", n |-> 0], [kind |-> "null", n |-> 0],
      [kind |-> "hours", n |-> 40], [kind |-> "weeks", n |-> 2], [kind |-> "days", n |-> 5],
      [kind |-> "malformed", n |-> 0], [kind |-> "nounit", n |-> 0] }

\* each optional field missing (key absent), null, or present
Optional(v) == {NoVal, Null, v}

\* The records of the model: the fields one extractor reads take every
\* combination of missing, null and present while the other fields are
\* present, and the records with every optional field missing or null.
ExtractRecords ==
    {Record(p, 90, 100, 200, [kind |-> "hours", n |-> 40], 10, 30, "expert") :
        p \in Optional(50)}
    \cup {Record(50, x, 100, 200, [kind |-> "hours", n |-> 40], 10, 30, "expert") :
        x \in Optional(90)}
    \cup {Record(50, 90, c, f, d, 10, 30, "expert") :
        c \in Optional(100), f \in Optional(200), d \in Durations}
    \cup {Record(50, 90, 100, 200, d, lo, hi, "expert") :
        d \in Durations, lo \in Optional(10), hi \in Optional(30)}
    \cup {Record(50, 90, 100, 200, [kind |-> "hours", n |-> 40], 10, 30, l) :
        l \in {"", NullLevel, "expert", "guru"}}
    \cup {Record(NoVal, NoVal, NoVal, NoVal, [kind |-> "absent", n |-> 0], NoVal, NoVal, ""),
          Record(Null, Null, Null, Null, [kind |-> "null", n |-> 0], Null, Null, NullLevel)}

\* demand tables: empty, without the slug, and with the slug's row holding a
\* count, no count or null
DemandTables ==
    {EmptyMap} \cup {[k \in {s} |-> v] : s \in {"a", "z"}, v \in Optional(70)}

\* salary tables: empty, without the domain, and with the domain's roles
SalaryTables ==
    {EmptyMap, [k \in {"Finance"} |-> <<70>>], [k \in {"CS/IT"} |-> <<>>],
     [k \in {"CS/IT"} |-> <<80, Null, 100, 0>>]}

\* everything but the called function is at rest
InitIdle ==
    /\ certFiles = <<>>
    /\ demandFile = NoDemand
    /\ salaryFile = NoSalary
    /\ trendsFile = NoTrends
    /\ todayFile = NoToday
    /\ trendsAtStart = trendsFile
    /\ todayAtStart = todayFile
    /\ history = <<>>
    /\ InitLocals
    /\ InitRecIdle

InitExtract ==
    /\ InitIdle
    /\ fnIn \in {[fn |-> "extract", cert |-> c, demand |-> d, salary |-> t] :
                   c \in ExtractRecords, d \in DemandTables, t \in SalaryTables}
    /\ fnOut = NoCall

NextExtract ==
    \/ call_get_demand_signal
    \/ call_get_salary_signal
    \/ call_get_friction_signals
    \/ call_get_difficulty_weight

SpecExtract == InitExtract /\ [][NextExtract]_vars

(***************************************************************************)
(* The normalizers called on their own, on a cohort value list and a value *)
(* (compute_rankings.py lines 50-83).                                      *)
(***************************************************************************)
call_zscore ==
    /\ fnIn.fn = "normalize"
    /\ fnOut' = [fn |-> "zscore", out |-> Returned(zscore(fnIn.values, fnIn.value))]
    /\ UNCHANGED <<disk, pc, runs, locals, trendsAtStart, todayAtStart, history, recvars, fnIn>>

call_minmax_normalize ==
    /\ fnIn.fn = "normalize"
    /\ fnOut' = [fn |-> "minmax_normalize",
                 out |-> Returned(minmax_normalize(fnIn.values, fnIn.value))]
    /\ UNCHANGED <<disk, pc, runs, locals, trendsAtStart, todayAtStart, history, recvars, fnIn>>

\* the numbers of the cohort lists; a list may also hold None
CohortNumbers == {10, 20, 40}

InitNormalize ==
    /\ InitIdle
    /\ fnIn \in {[fn |-> "normalize", values |-> v, value |-> x] :
                   v \in SeqsUpTo(CohortNumbers \cup {Null}, MaxValues),
                   x \in CohortNumbers \cup {0}}
    /\ fnOut = NoCall

NextNormalize ==
    \/ call_zscore
    \/ call_minmax_normalize

SpecNormalize == InitNormalize /\ [][NextNormalize]_vars

(***************************************************************************)
(* The ranking run on one domain cohort whose records differ in one signal *)
(* at a time (compute_rankings.py lines 185-297).                          *)
(***************************************************************************)
\* records of one domain with equal salary, hours and level: three that differ
\* in demand only, one without a fee, one with a higher fee and one without a
\* salary of its own
CohortPool ==
    { Cert("x0", "CS/IT", 0, 90, 100, "hours", 40, "associate"),
      Cert("x50", "CS/IT", 50, 90, 100, "hours", 40, "associate"),
      Cert("x100", "CS/IT", 100, 90, 100, "hours", 40, "associate"),
      Cert("nofee", "CS/IT", 50, 90, NoVal, "hours", 40, "associate"),
      Cert("dear", "CS/IT", 50, 90, 300, "hours", 40, "associate"),
      Cert("nosalary", "CS/IT", 50, NoVal, 100, "hours", 40, "associate") }

CohortSlugs == {c.slug : c \in CohortPool}

\* demand/metrics.json with a row for every record of the pool
CohortDemand ==
    [exists |-> TRUE,
     rows |-> [k \in CohortSlugs |-> (CHOOSE c \in CohortPool : c.slug = k).job_postings]]

\* rankings/trends.json with the same smoothed score for every record
CohortTrends == [state |-> "ok", scores |-> [k \in CohortSlugs |-> 30000]]

\* one file that lists up to MaxCerts different records of the pool, in any order
CohortFiles ==
    {<<CertFile(s)>> : s \in {t \in SeqsUpTo(CohortPool, MaxCerts) :
                                /\ t # <<>>
                                /\ \A i, j \in 1..Len(t) : t[i] = t[j] => i = j}}

InitCohort ==
    /\ certFiles \in CohortFiles
    /\ demandFile \in {NoDemand, CohortDemand}
    /\ salaryFile = NoSalary
    /\ trendsFile \in {NoTrends, CohortTrends}
    /\ todayFile = NoToday
    /\ trendsAtStart = trendsFile
    /\ todayAtStart = todayFile
    /\ history = <<>>
    /\ InitLocals
    /\ InitRecIdle
    /\ InitFnIdle

SpecCohort == InitCohort /\ [][Next]_vars

(***************************************************************************)
(* Ranking runs between which the certification files are regenerated: a   *)
(* certification may be missing from one run and back in the next.         *)
(***************************************************************************)
\* the certification files of one generation: with and without the slug "a",
\* and with "a" in two domains
ReturnFiles ==
    { <<CertFile(<<Cert("b", "CS/IT", 50, 90, 100, "hours", 40, "associate")>>)>>,
      <<CertFile(<<Cert("a", "CS/IT", 0, NoVal, 100, "hours", 40, "associate"),
                   Cert("b", "CS/IT", 50, 90, 100, "hours", 40, "associate")>>)>>,
      <<CertFile(<<Cert("c", "CS/IT", 100, 90, 100, "days", 5, "associate"),
                   Cert("d", "CS/IT", 50, 120, 300, "weeks", 2, "associate"),
                   Cert("a", "CS/IT", 0, NoVal, 100, "hours", 40, "associate")>>)>>,
      <<CertFile(<<Cert("a", "CS/IT", 0, NoVal, 100, "hours", 40, "associate"),
                   Cert("a", "Finance", 50, 90, NoVal, "weeks", 1, "associate")>>)>> }

\* the generation step of the pipeline rewrites data/certifications
RegenerateCerts ==
    /\ Resting
    /\ certFiles' \in ReturnFiles \ {certFiles}
    /\ UNCHANGED <<demandFile, salaryFile, trendsFile, todayFile>>
    /\ UNCHANGED <<pc, runs, locals, trendsAtStart, todayAtStart, history, recvars, fnvars>>

InitReturn ==
    /\ certFiles \in ReturnFiles
    /\ \E t \in InputTables :
         /\ demandFile = t.demand
         /\ salaryFile = t.salary
         /\ trendsFile = t.trends
    /\ todayFile = NoToday
    /\ trendsAtStart = trendsFile
    /\ todayAtStart = todayFile
    /\ history = <<>>
    /\ InitLocals
    /\ InitRecIdle
    /\ InitFnIdle

NextReturn ==
    \/ RunRanking
    \/ RegenerateCerts

SpecReturn == InitReturn /\ [][NextReturn]_vars

(***************************************************************************)
(* scripts/referential_check.py: check_rankings_references, called with    *)
(* the slugs of the certification files, between ranking runs.             *)
(***************************************************************************)
\* the slugs of the readable certification files
CertSlugs(files) ==
    UNION {{files[i].certs[k].slug : k \in 1..Len(files[i].certs)} :
             i \in {j \in 1..Len(files) : files[j].readable}}

\* the top-level keys of rankings/trends.json as lines 323-326 of
\* compute_rankings.py write it, in the order of trends.keys()
TrendsKeys == <<"last_updated", "scores">>

Invalid(file, slug) == [file |-> file, slug |-> slug]

\* the errors of lines 53-58: the entries of today.json, in order, whose slug
\* is not in cert_slugs
TodayErrors(file, cert_slugs) ==
    IF file.state = "absent" THEN <<>>
    ELSE LET bad == SelectSeq(file.rankings, LAMBDA r : r.slug \notin cert_slugs)
         IN [i \in 1..Len(bad) |-> Invalid("rankings/today.json", bad[i].slug)]

\* the errors of lines 61-66: the keys of trends.json that are not in cert_slugs
TrendsErrors(file, cert_slugs) ==
    IF file.state = "absent" THEN <<>>
    ELSE LET bad == SelectSeq(TrendsKeys, LAMBDA key : key \notin cert_slugs)
         IN [i \in 1..Len(bad) |-> Invalid("rankings/trends.json", bad[i])]

\* json.load of a truncated file raises (line 18)
check_rankings_references_raises == todayFile.state = "truncated" \/ trendsFile.state = "truncated"

check_rankings_references ==
    /\ Resting
    /\ fnIn' = [fn |-> "check", cert_slugs |-> CertSlugs(certFiles),
                today |-> todayFile, trends |-> trendsFile]
    /\ fnOut' = [fn |-> "check_rankings_references",
                 out |-> IF check_rankings_references_raises THEN Raised
                         ELSE Returned(TodayErrors(todayFile, CertSlugs(certFiles))
                                         \o TrendsErrors(trendsFile, CertSlugs(certFiles)))]
    /\ UNCHANGED <<disk, pc, runs, locals, trendsAtStart, todayAtStart, history, recvars>>

NextCheck ==
    \/ RunRanking
    \/ check_rankings_references

SpecCheck == InitSteps /\ [][NextCheck]_vars

(***************************************************************************)
(* Properties of the ranking run.                                          *)
(***************************************************************************)
Ranked == 1..Len(all_rankings)

\* the run has produced its snapshot: rankings/today.json holds all_rankings
Snapshot ==
    /\ runs >= 1
    /\ todayFile.state = "ok"
    /\ Len(todayFile.rankings) = Len(all_rankings)

\* C1: in the global ranking, of two entries with equal score the one with
\* the higher salary signal has the smaller global_rank, and with equal
\* salary too the one with the lower fee has the smaller global_rank.
C1_GlobalTieBreak ==
    Snapshot =>
      \A i, j \in Ranked :
        LET x == all_rankings[i]
            y == all_rankings[j]
            gx == todayFile.rankings[i].global_rank
            gy == todayFile.rankings[j].global_rank
        IN /\ todayFile.rankings[i].slug = x.slug
           /\ (x.score = y.score /\ x.salary > y.salary => gx < gy)
           /\ (x.score = y.score /\ x.salary = y.salary /\ x.fee < y.fee => gx < gy)

\* a snapshot where both tie-breaks decided: a score tie with different
\* salaries, and a score and salary tie with different fees, each between
\* entries that the input listed in the opposite order
C1_Witness ==
    /\ Snapshot
    /\ \E i, j \in Ranked :
         /\ i < j
         /\ all_rankings[i].score = all_rankings[j].score
         /\ all_rankings[i].salary > all_rankings[j].salary
    /\ \E i, j \in Ranked :
         /\ i < j
         /\ all_rankings[i].score = all_rankings[j].score
         /\ all_rankings[i].salary = all_rankings[j].salary
         /\ all_rankings[i].fee < all_rankings[j].fee

DomainsRanked == {all_rankings[i].domain : i \in Ranked}
InDomain(d) == {i \in Ranked : all_rankings[i].domain = d}

\* C2: within every domain the ranks are 1..n without gaps or repeats, a
\* strictly higher smoothed score has the smaller rank, and a singleton
\* domain gets rank 1.
C2_DomainRanks ==
    Snapshot =>
      \A d \in DomainsRanked :
        LET idx == InDomain(d)
            n == Cardinality(idx)
        IN /\ {all_rankings[i].rank : i \in idx} = 1..n
           /\ \A i, j \in idx : i # j => all_rankings[i].rank # all_rankings[j].rank
           /\ \A i, j \in idx :
                all_rankings[i].score > all_rankings[j].score
                  => all_rankings[i].rank < all_rankings[j].rank
           /\ \A i \in idx : todayFile.rankings[i].rank = all_rankings[i].rank
           /\ (n = 1 => \A i \in idx : all_rankings[i].rank = 1)

\* a snapshot with a singleton domain and a domain of two entries with
\* different scores
C2_Witness ==
    /\ Snapshot
    /\ \E d \in DomainsRanked : Cardinality(InDomain(d)) = 1
    /\ \E d \in DomainsRanked :
         /\ Cardinality(InDomain(d)) = 2
         /\ Cardinality({all_rankings[i].score : i \in InDomain(d)}) = 2

\* C4: lam (in tenths) lies in [0, 0.6]; obs = 2 gives 0 and obs = 0 gives
\* 0.6, obs being the number of non-zero signals among demand and salary.
C4_LamRange ==
    \A i \in Ranked :
      LET e == all_rankings[i]
      IN /\ e.obs = (IF e.job_postings # 0 THEN 1 ELSE 0) + (IF e.salary # 0 THEN 1 ELSE 0)
         /\ e.lam >= 0 /\ e.lam <= 6
         /\ (e.obs = 2 => e.lam = 0)
         /\ (e.obs = 0 => e.lam = 6)

\* a run that ranked an entry with no signal and an entry with both
C4_Witness ==
    /\ runs >= 1
    /\ \E i \in Ranked : all_rankings[i].obs = 0 /\ all_rankings[i].lam = 6
    /\ \E i \in Ranked : all_rankings[i].obs = 2 /\ all_rankings[i].lam = 0

Between(x, a, b) == Min(a, b) <= x /\ x <= Max(a, b)

\* the previous smoothed score of slug k in the store the run started from
StoredBefore(k) == trendsAtStart.state = "ok" /\ k \in DOMAIN trendsAtStart.scores

\* C5: the smoothed score stored for a slug lies between the slug's previous
\* smoothed score read from the trend store and its shrunk score of the run.
C5_SmoothedBetween ==
    Snapshot =>
      /\ trendsFile.state = "ok"
      /\ \A i \in Ranked :
           LET e == all_rankings[i]
           IN /\ (StoredBefore(e.slug) => e.prev_score = trendsAtStart.scores[e.slug])
              /\ Between(e.score, e.prev_score, e.score_shrunk)
      /\ \A k \in DOMAIN trendsFile.scores :
           \E i \in Ranked :
             /\ all_rankings[i].slug = k
             /\ trendsFile.scores[k] = all_rankings[i].score
             /\ (StoredBefore(k) =>
                   Between(trendsFile.scores[k], trendsAtStart.scores[k],
                           all_rankings[i].score_shrunk))

\* a stored score strictly between a previous score and a different shrunk score
C5_Witness ==
    /\ Snapshot
    /\ \E i \in Ranked :
         LET e == all_rankings[i]
         IN /\ StoredBefore(e.slug)
            /\ trendsFile.scores[e.slug] = e.score
            /\ e.prev_score < e.score /\ e.score < e.score_shrunk

\* C6: a slug with no previous score in the trend store read at the start of
\* the run gets a smoothed score equal to its shrunk score.
C6_FirstObservation ==
    Snapshot =>
      \A i \in Ranked :
        ~StoredBefore(all_rankings[i].slug)
          => all_rankings[i].score = all_rankings[i].score_shrunk

\* a run over a store that holds other slugs but not this one, whose shrunk
\* score is not zero
C6_Witness ==
    /\ Snapshot
    /\ trendsAtStart.state = "ok"
    /\ \E i \in Ranked :
         /\ ~StoredBefore(all_rankings[i].slug)
         /\ all_rankings[i].score_shrunk # 0
         /\ all_rankings[i].score = all_rankings[i].score_shrunk

\* the shrunk scores of a run, per entry
ShrunkScores(rankings) ==
    {<<rankings[i].slug, rankings[i].domain, rankings[i].score_shrunk>> :
        i \in 1..Len(rankings)}

\* C8: two runs in a row on identical inputs, the first from an empty trend
\* store, give every slug the same shrunk score.
C8_ShrunkRepeats ==
    \A r \in 1..Len(history) :
      (/\ r >= 2
       /\ history[r - 1].start.state = "absent"
       /\ history[r].inputs = history[r - 1].inputs)
      => ShrunkScores(history[r].rankings) = ShrunkScores(history[r - 1].rankings)

\* a second run whose first run started from no store and shrank an entry
C8_Witness ==
    /\ Len(history) = 2
    /\ history[1].start.state = "absent"
    /\ history[2].inputs = history[1].inputs
    /\ \E i \in 1..Len(history[2].rankings) :
         /\ history[2].rankings[i].lam > 0
         /\ history[2].rankings[i].score_shrunk # history[2].rankings[i].score_raw

(***************************************************************************)
(* Properties of a failed or interrupted run (SpecSteps).                  *)
(***************************************************************************)
\* the trend store a run started from trendsAtStart writes when it completes
CompleteNewTrends ==
    SavedTrends(NewScores(LoadedCerts(certFiles), LoadDemand(demandFile),
                          LoadSalary(salaryFile), LoadPrevious(trendsAtStart)))

\* C9: after a run that failed or was interrupted at any step, the persisted
\* trend store is exactly the store of the previous run or exactly the
\* complete new store of this run.
C9_TrendStoreNeverPartial ==
    pc \in {"interrupted", "crashed"}
      => trendsFile = trendsAtStart \/ trendsFile = CompleteNewTrends

\* the certification collection is entirely absent or unreadable
NoCollection == \A i \in 1..Len(certFiles) : ~certFiles[i].readable

\* C10: a run hard-fails exactly when the certification collection is absent
\* or unreadable; it then writes neither a rankings snapshot nor a trend
\* store, and with the collection present and the demand table, the salary
\* table or the trend store missing it completes and writes its outputs.
C10_HardFailOnlyWithoutCollection ==
    /\ (NoCollection /\ runs >= 1 =>
          pc # "done" /\ todayFile = todayAtStart /\ trendsFile = trendsAtStart)
    /\ (pc = "crashed" => NoCollection)
    /\ (pc = "done" /\ ~NoCollection =>
          todayFile = SavedToday(all_rankings) /\ trendsFile = SavedTrends(new_scores))

(***************************************************************************)
(* Properties of repeated runs (SpecRepeated).                             *)
(***************************************************************************)
\* the shrunk scores the entries of slug k have in a list of entries
ShrunkOf(rankings, k) ==
    {rankings[i].score_shrunk : i \in {j \in 1..Len(rankings) : rankings[j].slug = k}}

\* slug k has the one shrunk score c in the entries of this run
ConstantShrunk(k, c) == ShrunkOf(all_rankings, k) = {c}

\* the slugs with a stored smoothed score and one shrunk score in this run
Smoothed ==
    IF trendsFile.state # "ok" THEN {}
    ELSE {k \in DOMAIN trendsFile.scores : Cardinality(ShrunkOf(all_rankings, k)) = 1}

TheShrunk(k) == CHOOSE c \in ShrunkOf(all_rankings, k) : TRUE

\* One run on a slug whose shrunk score stays c: the distance of the stored
\* smoothed score to c does not grow, at least halves (up to the rounding of
\* one unit), and the score stays on its side of c.
EmaStep ==
    \A k \in Smoothed :
      LET c == TheShrunk(k)
          old == trendsFile.scores[k]
          new == trendsFile'.scores[k]
      IN (trendsFile'.state = "ok" /\ k \in DOMAIN trendsFile'.scores
            /\ ShrunkOf(all_rankings', k) = {c})
         => /\ Abs(new - c) <= Abs(old - c)
            /\ 2 * Abs(new - c) <= Abs(old - c) + 1
            /\ (old >= c => new >= c)
            /\ (old <= c => new <= c)

\* the first run on the store found on disk: the same, from any previous value
EmaFirstStep ==
    (history = <<>> /\ runs = 0 /\ trendsFile.state = "ok" /\ trendsFile'.state = "ok") =>
      \A k \in DOMAIN trendsFile.scores \cap DOMAIN trendsFile'.scores :
        \A c \in ShrunkOf(all_rankings', k) :
          Cardinality(ShrunkOf(all_rankings', k)) = 1 =>
            LET old == trendsFile.scores[k]
                new == trendsFile'.scores[k]
            IN /\ Abs(new - c) <= Abs(old - c)
               /\ 2 * Abs(new - c) <= Abs(old - c) + 1
               /\ (old >= c => new >= c)
               /\ (old <= c => new <= c)

\* C7: with the same shrunk score c in every run, from any previous smoothed
\* value, the distance |smoothed - c| never increases from one run to the
\* next, the smoothed score never crosses c, and it converges to c: every run
\* halves the distance, up to the rounding of one unit.
C7_EmaConverges == [][EmaStep /\ EmaFirstStep]_vars

\* a later run that moved a stored score strictly closer to a shrunk score it
\* has not reached yet
C7_Witness ==
    /\ runs >= 2
    /\ trendsAtStart.state = "ok"
    /\ \E k \in Smoothed :
         /\ k \in DOMAIN trendsAtStart.scores
         /\ trendsAtStart.scores[k] > trendsFile.scores[k]
         /\ trendsFile.scores[k] > TheShrunk(k) + 1

(***************************************************************************)
(* Properties of the recommendation runs.                                  *)
(***************************************************************************)
\* the (domain, company) pairs of recommendations.json
RecPairs == UNION {{<<d, c>> : c \in DOMAIN recFile.recs[d]} : d \in DOMAIN recFile.recs}

RecList(p) == recFile.recs[p[1]][p[2]]

\* the records of the index that a recommendation run counts to domain d
IndexOfDomain(d) ==
    {i \in 1..Len(indexFile.certs) :
        IF recFile.script = "build" THEN normalize_domain_slug(indexFile.certs[i].domain) = d
        ELSE indexFile.certs[i].domain = d}

\* C3: every list of recommendations.json has at most 3 entries, with
\* fit_score non-increasing from the first entry to the last.
C3_RecsTopThreeSorted ==
    recFile.state = "ok" =>
      \A p \in RecPairs :
        /\ Len(RecList(p)) <= 3
        /\ \A i \in 1..(Len(RecList(p)) - 1) :
             RecList(p)[i].fit_score >= RecList(p)[i + 1].fit_score

\* a list of three entries of strictly decreasing fit_score, cut from a
\* domain of more than three certifications whose first record in the index
\* is not the first entry of the list
C3_Witness ==
    /\ recStatus = "done"
    /\ recFile.state = "ok"
    /\ \E p \in RecPairs :
         /\ Len(RecList(p)) = 3
         /\ RecList(p)[1].fit_score > RecList(p)[2].fit_score
         /\ RecList(p)[2].fit_score > RecList(p)[3].fit_score
         /\ Cardinality(IndexOfDomain(p[1])) > 3
         /\ \E i \in IndexOfDomain(p[1]) :
              /\ \A j \in IndexOfDomain(p[1]) : i <= j
              /\ indexFile.certs[i].slug # RecList(p)[1].slug

(***************************************************************************)
(* Properties of the signal extractors (SpecExtract).                      *)
(***************************************************************************)
Called(fn) == fnOut.fn = fn

\* C11: on a record with a slug and a domain, with any of its optional
\* fields missing (absent or null) and any demand and salary tables, each
\* of the four extractors returns a number and does not raise.
C11_ExtractorsNeverRaise ==
    fnOut.fn \in {"get_demand_signal", "get_salary_signal", "get_friction_signals",
                  "get_difficulty_weight"}
      => ~fnOut.out.raised

\* C17: for a slug absent from the demand table the demand signal is 0,
\* whatever else the record carries; for a slug whose row holds a 30-day
\* postings count it is that count.
C17_DemandFromTableOrZero ==
    Called("get_demand_signal") /\ ~fnOut.out.raised =>
      LET slug == fnIn.cert.slug
      IN /\ (slug \notin DOMAIN fnIn.demand => fnOut.out.value = 0)
         /\ (slug \in DOMAIN fnIn.demand /\ fnIn.demand[slug] # NoVal
               => fnOut.out.value = fnIn.demand[slug])

\* the duration names no unit, or names one next to text that is no number
Unparsable(cert) == cert.duration.kind \in {"malformed", "nounit"}

\* the record carries both ends of the recommended hour range
RangePresent(cert) ==
    /\ cert.recommended_hours_min \notin {NoVal, Null}
    /\ cert.recommended_hours_max \notin {NoVal, Null}

RangeMissing(cert) ==
    /\ cert.recommended_hours_min \in {NoVal, Null}
    /\ cert.recommended_hours_max \in {NoVal, Null}

\* C18: for a duration that cannot be parsed as hours, weeks or days,
\* get_friction_signals does not raise and returns as hours the midpoint of
\* the recommended hour range when the range is present and 0 when it is
\* not (hours are held in half hours; the record's fee is readable).
C18_UnparsableDurationFallsBack ==
    Called("get_friction_signals") /\ Unparsable(fnIn.cert) /\ ~FrictionFeeRaises(fnIn.cert) =>
      /\ ~fnOut.out.raised
      /\ RangePresent(fnIn.cert) =>
           fnOut.out.value.hours
             = fnIn.cert.recommended_hours_min + fnIn.cert.recommended_hours_max
      /\ RangeMissing(fnIn.cert) => fnOut.out.value.hours = 0

(***************************************************************************)
(* Properties of the normalizers (SpecNormalize).                          *)
(***************************************************************************)
\* C12: minmax_normalize returns 0.0 on a list of fewer than 2 samples and
\* zscore returns 0.0 on a list of fewer than 3 samples, the empty list
\* included; neither raises.
C12_FewSamplesGiveZero ==
    /\ (Called("minmax_normalize") /\ Len(Samples(fnIn.values)) < 2
          => ~fnOut.out.raised /\ fnOut.out.value = 0)
    /\ (Called("zscore") /\ Len(Samples(fnIn.values)) < 3
          => ~fnOut.out.raised /\ fnOut.out.value = 0)

\* zscore was called on two samples that differ, with a value off their mean
C12_Witness ==
    /\ Called("zscore")
    /\ Len(fnIn.values) = 2
    /\ Len(Samples(fnIn.values)) = 2
    /\ fnIn.values[1] # fnIn.values[2]
    /\ 2 * fnIn.value # fnIn.values[1] + fnIn.values[2]

\* the value is a member of a cohort whose values are all equal
ConstantCohort ==
    /\ fnIn.values # <<>>
    /\ \A i \in 1..Len(fnIn.values) : fnIn.values[i] = fnIn.value
    /\ fnIn.value # Null

StoredScore(slug) ==
    IF slug \in DOMAIN trendsAtStart.scores THEN trendsAtStart.scores[slug] ELSE NoVal

\* the snapshot ranks a cohort of three certifications of one domain whose
\* demand signals are 0, 50 and 100 and whose salary, fee, hours and previous
\* smoothed score are equal (the records of the pool share one level)
DemandOnlyCohort ==
    /\ Snapshot
    /\ Len(all_rankings) = 3
    /\ {all_rankings[i].job_postings : i \in Ranked} = {0, 50, 100}
    /\ \A i, j \in Ranked :
         /\ all_rankings[i].domain = all_rankings[j].domain
         /\ all_rankings[i].salary = all_rankings[j].salary
         /\ all_rankings[i].fee = all_rankings[j].fee
         /\ all_rankings[i].hours = all_rankings[j].hours
         /\ StoredScore(all_rankings[i].slug) = StoredScore(all_rankings[j].slug)

\* C14: in a cohort of three certifications with demand 0, 50 and 100 and
\* equal other signals, the certification with demand 100 gets a smaller rank
\* than the one with demand 0, whatever the order of the records in the input.
C14_HigherDemandOutranks ==
    DemandOnlyCohort =>
      \A i, j \in Ranked :
        all_rankings[i].job_postings = 100 /\ all_rankings[j].job_postings = 0
          => all_rankings[i].rank < all_rankings[j].rank

\* the loaded record behind a ranking entry
RecordOf(e) == loaded.certs[e.slug]

CarriesFee(cert) == cert.cost # NoVal \/ cert.exam_fee_usd # NoVal

\* the fees carried by the records of the entry's domain cohort
CohortFees(e) ==
    {FrictionFee(RecordOf(x)) :
       x \in {all_rankings[i] : i \in {k \in Ranked :
                /\ all_rankings[k].domain = e.domain
                /\ CarriesFee(RecordOf(all_rankings[k]))}}}

\* C19: the fee signal of a record that carries a fee is that fee, and the
\* fee signal of a record without a fee is the least fee carried in its
\* domain cohort.
C19_FeeOrDomainMinimum ==
    Snapshot =>
      \A i \in Ranked :
        LET e == all_rankings[i]
        IN /\ CarriesFee(RecordOf(e)) => e.fee = FrictionFee(RecordOf(e))
           /\ ~CarriesFee(RecordOf(e)) /\ CohortFees(e) # {}
                => \A f \in CohortFees(e) : e.fee <= f /\ e.fee \in CohortFees(e)

\* the record of the entry is in no table of the run and carries no salary
\* average of its own (the ranking run reads no issuer-affinity table)
AbsentFromTables(e) ==
    /\ e.slug \notin DOMAIN demand_data
    /\ e.domain \notin DOMAIN salary_data
    /\ RecordOf(e).salary = NoVal

\* C15: a certification that is in neither the demand table nor the salary
\* table gets demand 0 and salary 0 in its signals, a shrunk score between
\* the least and the greatest raw score of its cohort, and confidence "low".
C15_AbsentGetsZerosAndLow ==
    Snapshot =>
      \A i \in Ranked :
        LET e == all_rankings[i]
        IN AbsentFromTables(e) =>
             /\ e.job_postings = 0
             /\ e.salary = 0
             /\ e.obs = 0
             /\ e.confidence = "low"
             /\ \E j, k \in Ranked :
                  /\ all_rankings[j].domain = e.domain
                  /\ all_rankings[k].domain = e.domain
                  /\ all_rankings[j].score_raw <= e.score_shrunk
                  /\ e.score_shrunk <= all_rankings[k].score_raw

\* the ranking entries of all runs so far
AllEntries ==
    UNION {{history[r].rankings[i] : i \in 1..Len(history[r].rankings)} :
             r \in 1..Len(history)}

\* C20: the confidence label of a ranking entry is "low" for obs = 0,
\* "medium" for obs = 1 and "high" for obs = 2, where obs counts the demand
\* and salary signals above 0; entries with the same obs have the same label,
\* in one run or in different runs.
C20_ConfidenceFromObs ==
    /\ \A x \in AllEntries :
         /\ x.obs = (IF x.job_postings > 0 THEN 1 ELSE 0) + (IF x.salary > 0 THEN 1 ELSE 0)
         /\ x.obs = 0 => x.confidence = "low"
         /\ x.obs = 1 => x.confidence = "medium"
         /\ x.obs = 2 => x.confidence = "high"
    /\ \A x, y \in AllEntries : x.obs = y.obs => x.confidence = y.confidence

\* the three labels have been given, and two entries with the same obs differ
\* in score and in previous smoothed score
C20_Witness ==
    /\ Snapshot
    /\ {x.confidence : x \in AllEntries} = {"low", "medium", "high"}
    /\ \E x, y \in AllEntries :
         /\ x.obs = y.obs
         /\ x.score # y.score
         /\ x.prev_score # y.prev_score

\* C16: a recommendation run over the inputs of an earlier run of the same
\* script writes the records the earlier run wrote: the same slugs in the same
\* order with the same fit_score and the same signals, best_role_match and
\* tech_alignment included.  The runs change no input, so that two runs of
\* generate_enhanced_recommendations in a row are runs over identical inputs.
C16_RecsDeterministic ==
    [][recFile.script = "enhanced" /\ recFile'.script = "enhanced"
         => recFile'.recs = recFile.recs]_vars

\* the ranking entries of a domain
DomainEntries(domain) == SelectSeq(all_rankings, LAMBDA e : e.domain = domain)

\* fee_values and hours_values of the entry's cohort (lines 216-219); the
\* normalizers read the length, the least and the greatest value of a list
FeeValues(e) ==
    SelectPos([i \in 1..Len(DomainEntries(e.domain)) |-> DomainEntries(e.domain)[i].fee])

HoursValues(e) ==
    SelectPos([i \in 1..Len(DomainEntries(e.domain)) |-> DomainEntries(e.domain)[i].hours])

\* C22: the min-max normalized fee and the min-max normalized hours that
\* enter the raw score of a certification lie in [0, 1].
C22_FrictionNormalizedInUnitRange ==
    Snapshot =>
      \A i \in Ranked :
        LET e == all_rankings[i]
        IN /\ minmax_normalize(FeeValues(e), e.fee) \in 0..Scale
           /\ minmax_normalize(HoursValues(e), e.hours) \in 0..Scale

\* C27: of two certifications of one domain, the one with the smaller
\* per-domain rank has the smaller global_rank in the snapshot, also when the
\* two are tied on score, salary and fee.
C27_GlobalKeepsDomainOrder ==
    Snapshot =>
      \A i, j \in Ranked :
        /\ todayFile.rankings[i].domain = todayFile.rankings[j].domain
        /\ todayFile.rankings[i].rank < todayFile.rankings[j].rank
        => todayFile.rankings[i].global_rank < todayFile.rankings[j].global_rank

\* a snapshot of two domains with two entries of one domain tied on score,
\* salary and fee, and an entry of the other domain tied with them on score
C27_Witness ==
    /\ Snapshot
    /\ \E i, j, k \in Ranked :
         /\ i # j
         /\ all_rankings[i].domain = all_rankings[j].domain
         /\ all_rankings[i].score = all_rankings[j].score
         /\ all_rankings[i].salary = all_rankings[j].salary
         /\ all_rankings[i].fee = all_rankings[j].fee
         /\ all_rankings[k].domain # all_rankings[i].domain
         /\ all_rankings[k].score = all_rankings[i].score

\* C28: the snapshot written by a run holds exactly one entry for each
\* distinct slug loaded from the certification files, and no other entry.
C28_OneEntryPerSlug ==
    Snapshot =>
      /\ \A slug \in DOMAIN loaded.certs :
           Cardinality({i \in Ranked : todayFile.rankings[i].slug = slug}) = 1
      /\ \A i \in Ranked : todayFile.rankings[i].slug \in DOMAIN loaded.certs

\* the slugs ranked in run r, and the scores map on disk after run r
RankedSlugs(r) == {history[r].rankings[i].slug : i \in 1..Len(history[r].rankings)}

StoreAfter(r) == IF r < Len(history) THEN history[r + 1].start.scores ELSE trendsFile.scores

\* C29: after every completed run the scores map of rankings/trends.json has
\* as keys exactly the slugs ranked in that run, each mapped to the unrounded
\* smoothed score of an entry of that slug; a slug that the run before did not
\* rank has no previous score and is smoothed as a first observation.
C29_StoreHoldsRankedSlugsOnly ==
    \A r \in 1..Len(history) :
      LET es == history[r].rankings
      IN /\ DOMAIN StoreAfter(r) = RankedSlugs(r)
         /\ \A slug \in DOMAIN StoreAfter(r) :
              \E i \in 1..Len(es) : es[i].slug = slug /\ es[i].score = StoreAfter(r)[slug]
         /\ \A i \in 1..Len(es) :
              r > 1 /\ es[i].slug \notin RankedSlugs(r - 1)
                => /\ es[i].slug \notin DOMAIN history[r].start.scores
                   /\ es[i].seeded
                   /\ es[i].score = es[i].score_shrunk

\* a slug with a stored score was missing from the first run and is back in
\* the second, where its score is not the mean of its shrunk score and the
\* score stored before the first run
C29_Witness ==
    /\ Len(history) = 2
    /\ pc = "done"
    /\ \E i \in 1..Len(history[2].rankings) :
         LET e == history[2].rankings[i]
         IN /\ e.slug \in DOMAIN history[1].start.scores
            /\ e.slug \notin RankedSlugs(1)
            /\ e.slug \in DOMAIN trendsFile.scores
            /\ e.score # ScoreT(e.score_shrunk, history[1].start.scores[e.slug])

\* every ranked slug has its smoothed score in new_scores
AllScoresComputed ==
    /\ all_rankings = RankedAll(loaded, demand_data, salary_data, previous_scores)
    /\ new_scores = NewScores(loaded, demand_data, salary_data, previous_scores)
    /\ \A i \in Ranked : all_rankings[i].slug \in DOMAIN new_scores

\* the one write of rankings/trends.json: save_json opens the file found at
\* the start of the run, then dumps new_scores and ends the run
TrendsWriteStep ==
    \/ /\ pc = "today_saved"
       /\ trendsFile = trendsAtStart
       /\ trendsFile' = OpenedTrends
       /\ AllScoresComputed
    \/ /\ pc = "trends_open"
       /\ trendsFile = OpenedTrends
       /\ trendsFile' = SavedTrends(new_scores)
       /\ pc' = "done"
       /\ AllScoresComputed

\* the one read of rankings/trends.json: at the start of a run, when no score
\* of the run is computed
TrendsReadStep ==
    /\ Resting
    /\ pc' \in {"loaded", "crashed"}
    /\ previous_scores' = LoadPrevious(trendsFile)
    /\ all_rankings' = <<>>
    /\ new_scores' = EmptyMap

\* C25: in a ranking run the trend store is read once, before any score is
\* computed, and written once, after the smoothed scores of all
\* certifications of all domains are computed; no other step of the run
\* reads or writes it.
C25_TrendsReadFirstWrittenLast ==
    [][/\ trendsFile' # trendsFile => TrendsWriteStep
       /\ previous_scores' # previous_scores => TrendsReadStep
       /\ pc' = "computed" => previous_scores' = LoadPrevious(trendsAtStart')
       /\ pc' = "done" => trendsFile' = SavedTrends(new_scores') /\ trendsFile # trendsFile']_vars

\* a second run is complete: it read the store the first run wrote and
\* replaced it by different scores
C25_Witness ==
    /\ pc = "done"
    /\ runs = 2
    /\ previous_scores = trendsAtStart.scores
    /\ previous_scores # EmptyMap
    /\ trendsFile = SavedTrends(new_scores)
    /\ new_scores # previous_scores

\* the certification files with the records of one domain only
OnlyDomain(files, domain) ==
    [i \in 1..Len(files) |->
       [files[i] EXCEPT !.certs = SelectSeq(@, LAMBDA c : c.domain = domain)]]

\* the ranking of the input that agrees with the run's input on one domain
\* and has no other domain, from the same tables and previous scores
RankedAlone(domain) ==
    RankedAll(LoadedCerts(OnlyDomain(certFiles, domain)), demand_data, salary_data,
              previous_scores)

\* C24: the certifications of a domain get the smoothed score, confidence and
\* per-domain rank that they get when the input holds their domain only, with
\* the same tables and previous scores: the certifications of the other
\* domains change nothing but global_rank.
C24_DomainsIndependent ==
    Snapshot =>
      \A d \in {all_rankings[i].domain : i \in Ranked} :
        /\ Len(DomainEntries(d)) = Len(RankedAlone(d))
        /\ \A i \in 1..Len(DomainEntries(d)) :
             /\ i <= Len(RankedAlone(d))
             /\ DomainEntries(d)[i].slug = RankedAlone(d)[i].slug
             /\ DomainEntries(d)[i].score = RankedAlone(d)[i].score
             /\ DomainEntries(d)[i].confidence = RankedAlone(d)[i].confidence
             /\ DomainEntries(d)[i].rank = RankedAlone(d)[i].rank

\* the domain label of a certification names the roster's domain d: the label
\* itself, or the slug DOMAIN_MAP gives the label
LabelNames(label, d) ==
    \/ label = d
    \/ label \in DOMAIN DOMAIN_MAP /\ DOMAIN_MAP[label] = d

\* C21: every slug in the recommendation list of a company listed under
\* domain d is the slug of a certification of the index whose domain is d;
\* a certification of another or of an unrecognized domain is in no list of d.
C21_RecsFromOwnDomain ==
    recFile.state = "ok" =>
      \A p \in RecPairs :
        \A k \in 1..Len(RecList(p)) :
          \E i \in 1..Len(indexFile.certs) :
            /\ indexFile.certs[i].slug = RecList(p)[k].slug
            /\ LabelNames(indexFile.certs[i].domain, p[1])

\* the fees of the records of the index that the run counts to domain d
DomainFees(d) ==
    Fees([k \in 1..Cardinality(IndexOfDomain(d)) |->
            indexFile.certs[CHOOSE i \in IndexOfDomain(d) :
                              Cardinality({j \in IndexOfDomain(d) : j < i}) = k - 1]])

\* C23: the cost_penalty of a recommended certification is its fee min-max
\* normalized over the fees of the certifications of its own domain: 0 for
\* the cheapest and 1 for the most expensive certification of that domain.
C23_CostPenaltyWithinDomain ==
    recFile.state = "ok" =>
      \A p \in RecPairs :
        \A k \in 1..Len(RecList(p)) :
          LET e == RecList(p)[k]
              cert == CertBySlug(indexFile.certs)[e.slug]
          IN e.signals.cost_penalty = Round3(fee_penalty(cert, DomainFees(p[1])))

\* the roster the last run used, and the company of a list
RosterOf(p) == CompanyOf(companiesFile.by_domain[p[1]], p[2])

\* the fit score the script of the last run gives the certification of a slug
\* for the company of a list, before rounding
FitOf(p, slug) ==
    LET certs == indexFile.certs
        affinity == IF affinityFile.exists THEN affinityFile.table ELSE EmptyMap
    IN IF recFile.script = "build"
       THEN BuildScored(slug, CertBySlug(certs)[slug], RosterOf(p), LoadRankings(todayFile),
                        affinity, Fees(certs)).fit_score
       ELSE EnhancedScored(slug, CertBySlug(certs)[slug], RosterOf(p),
                           CHOOSE order \in Orders(RosterOf(p).top_roles) : TRUE,
                           IF p[1] \in DOMAIN DOMAIN_ROLES THEN DOMAIN_ROLES[p[1]] ELSE EmptyMap,
                           LoadRankings(todayFile), LoadDemand(demandFile), affinity,
                           Fees(certs)).fit_score

ListedSlugs(p) == {RecList(p)[k].slug : k \in 1..Len(RecList(p))}

CheckedAfterRun ==
    /\ pc = "done"
    /\ fnOut.fn = "check_rankings_references"
    /\ fnIn.today = todayFile
    /\ fnIn.trends = trendsFile
    /\ fnIn.cert_slugs = CertSlugs(certFiles)

\* C30: after a completed ranking run, check_rankings_references with the
\* slugs of the certification files returns an empty list of errors.
C30_NoReferenceErrorsAfterRun ==
    CheckedAfterRun => fnOut.out = Returned(<<>>)

====
